---- MODULE Spec2Model ----
(***************************************************************************)
(* The client-side data store of calorie-mate-mobile.                      *)
(*                                                                         *)
(* The repository holds two implementations of the DataProvider:           *)
(*   variant = "remote": src/src/contexts/DataContext.tsx, backed by the   *)
(*       Supabase tables of src/supabase/migrations/*.sql and their        *)
(*       realtime change feed;                                             *)
(*   variant = "local":  src/unnamed/part_011, backed by localStorage.     *)
(* A session runs one of them. Both keep a DataState in a reducer.         *)
(***************************************************************************)
EXTENDS Integers, Sequences, FiniteSets, TLC

VARIABLES
    variant,    \* which DataProvider the session runs
    state,      \* DataState: [meals, settings, isLoading, error]
    view,       \* the DataState of the last render: what the closures read
    lifecycle,  \* "created" | "mounted" | "unmounted"
    sub,        \* realtime subscription: "closed" | "joining" | "joined"
    db,         \* remote table public.meals: a set of rows
    dbSettings, \* remote table public.settings: a sequence of rows
    nextId,     \* number of identifiers handed out so far
    clock,      \* the time source of now() and of new Date()
    channel,    \* pushed change events not yet delivered, in order
    calls,      \* the calls of the action layer in flight, by call number
    ncalls,     \* number of calls the user of the store has made
    last,       \* the call that ended last, as it ended
    storage,    \* localStorage: [meals, settings], each a stored text
    foreign,    \* number of changes made by other sessions so far
    sheets,     \* the call of the Google Sheets service under way
    stats,      \* the last getSummaryStats call: what it got and returned
    form,       \* the last meal entry validated, and what the validation said
    hook,       \* useGoogleSheets: its state and its calls in flight
    notif       \* NotificationService and useNotifications: timers, settings

vars == <<variant, state, view, lifecycle, sub, db, dbSettings, nextId, clock,
          channel, calls, ncalls, last, storage, foreign, sheets, stats,
          form, hook, notif>>

\* the variables of the services beside the store, which the actions of the
\* store leave alone
serviceVars == <<sheets, stats, form, hook, notif>>

\* the services beside the Google Sheets calls
besideSheets == <<stats, form, hook, notif>>

\* the services beside getSummaryStats
besideStats == <<sheets, form, hook, notif>>

\* the services beside the validation of an entry
besideForm == <<sheets, stats, hook, notif>>

\* the services beside the useGoogleSheets hook
besideHook == <<sheets, stats, form, notif>>

\* the services beside the notifications
besideNotif == <<sheets, stats, form, hook>>

\* the variables of the store, which a call of the Google Sheets service
\* leaves alone
storeVars == <<variant, state, view, lifecycle, sub, db, dbSettings, nextId,
               clock, channel, calls, ncalls, last, storage, foreign>>

(***************************************************************************)
(* Bounds of the model.                                                    *)
(***************************************************************************)
\* operations on the data in one behaviour: calls of the action layer by the
\* user of the store, and changes made by other sessions
MaxOps == 2
\* identifiers the persistence layer (or generateId) hands out
MaxIds == 2

(***************************************************************************)
(* Values.                                                                 *)
(***************************************************************************)
\* JavaScript null, and the absence of a value, in string-valued places
NULL == "<null>"
\* new Date().toISOString().split('T')[0] and toTimeString().slice(0, 8)
Today == "today"
NowTime == "now"

\* Omit<Meal, 'id' | 'created_at' | 'updated_at'>: what addMeal is given.
\* The first is the record of the spec's scenario; the second breaks the
\* table's CHECK (calories >= 0).
MealInputs ==
    << [food_name |-> "Test Food", amount |-> "100g", calories |-> 200,
        protein |-> 15, date |-> "2025-07-08", time |-> "12:30",
        image_url |-> NULL],
       [food_name |-> "Bad", amount |-> "1", calories |-> -1,
        protein |-> 15, date |-> "2025-07-08", time |-> "12:30",
        image_url |-> NULL] >>

\* Partial<Meal>: what updateMeal is given. The last carries an identifier,
\* one the tables hand out to no row.
MealUpdates ==
    << [calories |-> 250], [protein |-> 20], [calories |-> 300],
       [id |-> MaxIds + 1] >>

\* Partial<Settings>: what updateSettings is given (Home.tsx handleGoalsUpdate)
SettingsUpdates ==
    << [daily_calories |-> 1800, daily_protein |-> 120],
       [daily_calories |-> 0, daily_protein |-> 120],
       [daily_protein |-> -1] >>

\* { ...a, ...b }
Spread(a, b) ==
    [k \in DOMAIN a \cup DOMAIN b |-> IF k \in DOMAIN b THEN b[k] ELSE a[k]]

\* const { k1, k2, ...rest } = a
Without(a, ks) == [k \in DOMAIN a \ ks |-> a[k]]

(***************************************************************************)
(* The reducers.                                                           *)
(***************************************************************************)
\* DataContext.tsx: initialState. created_at: '' is the time 0.
initialState ==
    [meals |-> << >>,
     settings |-> [id |-> "", daily_calories |-> 2000, daily_protein |-> 150,
                   created_at |-> 0, updated_at |-> 0],
     isLoading |-> TRUE,
     error |-> NULL]

\* part_011: initialSettings
initialSettings ==
    [dailyGoals |-> [calories |-> 2000, protein |-> 150],
     notifications |-> [mealReminders |-> FALSE, goalReminders |-> FALSE,
                        waterReminders |-> FALSE],
     language |-> "en",
     theme |-> "light"]

\* part_011: initialState
initialStateLS ==
    [meals |-> << >>, settings |-> initialSettings, isLoading |-> FALSE,
     error |-> NULL]

\* a map that adds a record when none has the identifier
MapByIdUpsert(ms, id, to) ==
    IF \E i \in 1..Len(ms) : ms[i].id = id
    THEN [i \in 1..Len(ms) |-> IF ms[i].id = id THEN to[i] ELSE ms[i]]
    ELSE Append(ms, [id |-> id])

\* array.map(meal => meal.id === id ? to(meal) : meal), with to[i] what the
\* callback makes of the i-th record
MapById(ms, id, to) ==
    [i \in 1..Len(ms) |-> IF ms[i].id = id THEN to[i] ELSE ms[i]]

\* array.filter(meal => meal.id !== id)
FilterOut(ms, id) == SelectSeq(ms, LAMBDA m : m.id # id)

\* DataContext.tsx: dataReducer
dataReducer(s, a) ==
    CASE a.type = "SET_LOADING" -> [s EXCEPT !.isLoading = a.payload]
      [] a.type = "SET_ERROR" ->
            [s EXCEPT !.error = a.payload, !.isLoading = FALSE]
      [] a.type = "SET_MEALS" -> [s EXCEPT !.meals = a.payload]
      [] a.type = "ADD_MEAL" -> [s EXCEPT !.meals = Append(@, a.payload)]
      [] a.type = "UPDATE_MEAL" ->
            [s EXCEPT !.meals =
                MapById(@, a.payload.id,
                        [i \in 1..Len(s.meals) |->
                            Spread(s.meals[i], a.payload.updates)])]
      [] a.type = "DELETE_MEAL" -> [s EXCEPT !.meals = FilterOut(@, a.payload)]
      [] a.type = "SET_SETTINGS" -> [s EXCEPT !.settings = a.payload]
      [] OTHER -> s

\* part_011: dataReducer
dataReducerLS(s, a) ==
    CASE a.type = "SET_LOADING" -> [s EXCEPT !.isLoading = a.payload]
      [] a.type = "SET_ERROR" -> [s EXCEPT !.error = a.payload]
      [] a.type = "LOAD_DATA" ->
            [s EXCEPT !.meals = a.payload.meals,
                      !.settings = a.payload.settings,
                      !.isLoading = FALSE, !.error = NULL]
      [] a.type = "ADD_MEAL" ->
            [s EXCEPT !.meals = Append(@, a.payload), !.error = NULL]
      [] a.type = "UPDATE_MEAL" ->
            [s EXCEPT !.meals = MapById(@, a.payload.id,
                                         [i \in 1..Len(s.meals) |-> a.payload]),
                      !.error = NULL]
      [] a.type = "DELETE_MEAL" ->
            [s EXCEPT !.meals = FilterOut(@, a.payload), !.error = NULL]
      [] a.type = "UPDATE_SETTINGS" ->
            [s EXCEPT !.settings = Spread(@, a.payload), !.error = NULL]
      [] OTHER -> s

\* useReducer's dispatch, for a sequence of actions dispatched in one step
RECURSIVE Reduce(_, _, _)
Reduce(v, s, as) ==
    IF as = << >> THEN s
    ELSE Reduce(v, IF v = "remote" THEN dataReducer(s, Head(as))
                   ELSE dataReducerLS(s, Head(as)), Tail(as))

Ids(ms) == { ms[i].id : i \in 1..Len(ms) }

CountId(ms, id) == Cardinality({ i \in 1..Len(ms) : ms[i].id = id })

(***************************************************************************)
(* JSON: a document is the list of its top-level members; an object is    *)
(* the list of its <<key, value>> members in the order they are written.   *)
(***************************************************************************)
MealKeys ==
    << "id", "food_name", "amount", "calories", "protein", "date", "time",
       "image_url", "created_at", "updated_at",
       "carbs", "fat", "fiber", "sugar", "sodium" >>

SettingsKeys ==
    << "id", "daily_calories", "daily_protein", "created_at", "updated_at",
       "dailyGoals", "notifications", "language", "theme" >>

\* JSON.stringify of an object: its own members, in key order
StringifyObject(obj, keys) ==
    LET present == SelectSeq(keys, LAMBDA k : k \in DOMAIN obj)
    IN  [i \in 1..Len(present) |-> <<present[i], obj[present[i]]>>]

\* JSON.parse of an object: a later member overrides an earlier one
ParseObject(members) ==
    LET ks == { members[i][1] : i \in 1..Len(members) }
        lastAt(k) == CHOOSE i \in 1..Len(members) :
                      /\ members[i][1] = k
                      /\ \A j \in (i + 1)..Len(members) : members[j][1] # k
    IN  [k \in ks |-> members[lastAt(k)][2]]

\* JSON.stringify({ meals, settings, exportedAt }, null, 2)
Stringify(s, at) ==
    [valid |-> TRUE,
     has |-> {"meals", "settings", "exportedAt"},
     meals |-> [i \in 1..Len(s.meals) |-> StringifyObject(s.meals[i], MealKeys)],
     settings |-> StringifyObject(s.settings, SettingsKeys),
     exportedAt |-> at]

\* JSON.parse of a document that parses
Parse(text) ==
    [has |-> text.has,
     meals |-> [i \in 1..Len(text.meals) |-> ParseObject(text.meals[i])],
     settings |-> ParseObject(text.settings)]

(***************************************************************************)
(* The remote tables (supabase/migrations) and the requests made to them.  *)
(***************************************************************************)
\* columns of public.meals
MealCols ==
    {"id", "food_name", "amount", "calories", "protein", "date", "time",
     "image_url", "created_at", "updated_at"}

\* columns of public.settings
SettingsCols ==
    {"id", "daily_calories", "daily_protein", "created_at", "updated_at"}

\* the settings row the migration inserts
DefaultSettingsRow ==
    [id |-> "s1", daily_calories |-> 2000, daily_protein |-> 150,
     created_at |-> 0, updated_at |-> 0]

\* NOT NULL columns without a default, and CHECK (calories >= 0), (protein >= 0)
MealRowOk(r) ==
    /\ {"food_name", "amount", "calories", "protein"} \subseteq DOMAIN r
    /\ DOMAIN r \subseteq MealCols
    /\ r.calories >= 0
    /\ r.protein >= 0

\* CHECK (daily_calories > 0), CHECK (daily_protein > 0)
SettingsRowOk(r) ==
    /\ DOMAIN r \subseteq SettingsCols
    /\ r.daily_calories > 0
    /\ r.daily_protein > 0

\* the row INSERT stores: column defaults, then the values given
NewMealRow(input, id, now) ==
    Spread([id |-> id, date |-> Today, time |-> NowTime, image_url |-> NULL,
            created_at |-> now, updated_at |-> now], input)

\* the row UPDATE stores; the trigger update_updated_at_column stamps it
UpdatedRow(row, updates, now) ==
    [Spread(row, updates) EXCEPT !.updated_at = now]

\* .order('created_at', { ascending: false })
RECURSIVE OrderDesc(_)
OrderDesc(rows) ==
    IF rows = {} THEN << >>
    ELSE LET r == CHOOSE x \in rows :
                    \A y \in rows : <<x.created_at, x.id>> = <<y.created_at, y.id>>
                        \/ x.created_at > y.created_at
                        \/ (x.created_at = y.created_at /\ x.id > y.id)
         IN  <<r>> \o OrderDesc(rows \ {r})

\* a change event of the realtime feed
Event(table, type, new, old) ==
    [table |-> table, eventType |-> type, new |-> new, old |-> old]

(***************************************************************************)
(* Calls of the action layer. A call is the promise an action returned:    *)
(* the request it is waiting for (req, stage, code, data), what the        *)
(* caller has seen of it (outcome, value) and what it dispatched (nd).     *)
(***************************************************************************)
NoCall ==
    [op |-> "none", parent |-> 0, id |-> 0, fields |-> << >>, sid |-> "",
     req |-> "none", stage |-> "done", code |-> "", data |-> << >>,
     held |-> << >>, todo |-> << >>, sets |-> << >>, made |-> 0,
     outcome |-> "pending", value |-> << >>, nd |-> 0]

\* a call that has sent request req and awaits the response
Sent(op, req, parent) ==
    [NoCall EXCEPT !.op = op, !.req = req, !.stage = "sent", !.parent = parent]

CallIds == DOMAIN calls

\* the smallest call number not in use
Free(cs) ==
    CHOOSE n \in 1..(Cardinality(DOMAIN cs) + 1) :
        /\ n \notin DOMAIN cs
        /\ \A m \in 1..(n - 1) : m \in DOMAIN cs

With(cs, n, call) == [c \in DOMAIN cs \cup {n} |-> IF c = n THEN call ELSE cs[c]]

Drop(cs, n) == [c \in DOMAIN cs \ {n} |-> cs[c]]

CanCall == lifecycle = "mounted" /\ ncalls + foreign < MaxOps

\* the user of the store calls an action, which runs up to its first await
Issue(call) ==
    /\ CanCall
    /\ ncalls' = ncalls + 1
    /\ calls' = With(calls, Free(calls), call)
    /\ UNCHANGED last

\* identifiers that exist or existed
KnownIds == 1..nextId

Resolved(call, value, nd) ==
    [call EXCEPT !.stage = "done", !.outcome = "resolved", !.value = value,
                 !.nd = nd]

Rejected(call, nd) ==
    [call EXCEPT !.stage = "done", !.outcome = "rejected", !.nd = nd]

(***************************************************************************)
(* DataContext.tsx: the provider backed by the remote tables.              *)
(***************************************************************************)
\* useEffect(() => { loadData(); subscribe ... }, []) and loadData up to its
\* first await
Mount ==
    /\ variant = "remote"
    /\ lifecycle = "created"
    /\ lifecycle' = "mounted"
    /\ state' = Reduce(variant, state, <<[type |-> "SET_LOADING", payload |-> TRUE]>>)
    /\ calls' = With(calls, Free(calls), Sent("loadData", "selectMeals", 0))
    /\ sub' = [meals |-> "joining", settings |-> "joining"]
    /\ view' = state'
    /\ UNCHANGED <<serviceVars, variant, db, dbSettings, nextId, clock, channel, ncalls,
                   last, storage, foreign>>

\* the realtime server acknowledges the subscriptions (both channels join
\* over the one socket)
SubJoined ==
    /\ sub.meals = "joining"
    /\ sub' = [meals |-> "joined", settings |-> "joined"]
    /\ UNCHANGED <<serviceVars, variant, state, view, lifecycle, db, dbSettings, nextId,
                   clock, channel, calls, ncalls, last, storage,
                   foreign>>

\* a cleanup that forgets the settings channel
UnmountMealsOnly ==
    /\ variant = "remote"
    /\ lifecycle = "mounted"
    /\ lifecycle' = "unmounted"
    /\ sub' = [sub EXCEPT !.meals = "closed"]
    /\ channel' = SelectSeq(channel, LAMBDA e : sub'[e.table] = "joined")
    /\ calls' = << >>
    /\ UNCHANGED <<serviceVars, variant, state, view, db, dbSettings, nextId, clock, ncalls,
                   last, storage, foreign>>

\* the cleanup of the effect: both channels are unsubscribed, and the client
\* delivers nothing more for a channel it has left. The component is gone:
\* what the calls still in flight dispatch goes to a reducer React has
\* discarded, and the store is followed no further.
Unmount ==
    /\ variant = "remote"
    /\ lifecycle = "mounted"
    /\ lifecycle' = "unmounted"
    /\ sub' = [meals |-> "closed", settings |-> "closed"]
    /\ channel' = SelectSeq(channel, LAMBDA e : sub'[e.table] = "joined")
    /\ calls' = << >>
    /\ UNCHANGED <<serviceVars, variant, state, view, db, dbSettings, nextId, clock, ncalls,
                   last, storage, foreign>>

\* refreshData: loadData up to its first await
refreshData ==
    /\ variant = "remote"
    /\ Issue(Sent("loadData", "selectMeals", 0))
    /\ state' = Reduce(variant, state, <<[type |-> "SET_LOADING", payload |-> TRUE]>>)
    /\ view' = state'
    /\ UNCHANGED <<serviceVars, variant, lifecycle, sub, db, dbSettings, nextId,
                   clock, channel, storage, foreign>>

\* addMeal up to its await
addMealCall(mealData, parent) ==
    [Sent("addMeal", "insert", parent) EXCEPT !.fields = mealData]

\* updateMeal up to its await
updateMealCall(id, updates) ==
    [Sent("updateMeal", "update", 0) EXCEPT !.id = id, !.fields = updates]

\* deleteMeal up to its await
deleteMealCall(id) ==
    [Sent("deleteMeal", "delete", 0) EXCEPT !.id = id]

\* updateSettings up to its await: .eq('id', state.settings.id) reads the
\* state of the render that made the closure
updateSettingsCall(updates, sid, parent) ==
    [Sent("updateSettings", "updateSettings", parent)
        EXCEPT !.fields = updates, !.sid = sid]

addMeal(i) ==
    /\ variant = "remote"
    /\ Issue(addMealCall(MealInputs[i], 0))
    /\ UNCHANGED <<serviceVars, variant, state, view, lifecycle, sub, db, dbSettings,
                   nextId, clock, channel, storage, foreign>>

updateMeal(id, j) ==
    /\ variant = "remote"
    /\ Issue(updateMealCall(id, MealUpdates[j]))
    /\ UNCHANGED <<serviceVars, variant, state, view, lifecycle, sub, db, dbSettings,
                   nextId, clock, channel, storage, foreign>>

deleteMeal(id) ==
    /\ variant = "remote"
    /\ Issue(deleteMealCall(id))
    /\ UNCHANGED <<serviceVars, variant, state, view, lifecycle, sub, db, dbSettings,
                   nextId, clock, channel, storage, foreign>>

updateSettings(j) ==
    /\ variant = "remote"
    /\ Issue(updateSettingsCall(SettingsUpdates[j], view.settings.id, 0))
    /\ UNCHANGED <<serviceVars, variant, state, view, lifecycle, sub, db, dbSettings,
                   nextId, clock, channel, storage, foreign>>

(***************************************************************************)
(* The persistence collaborator answers a request.                         *)
(***************************************************************************)
\* what handling a call's request does to the tables: the response (code,
\* data), the tables after it, and the change events it publishes
Unchanged(code, data) ==
    [code |-> code, data |-> data, db |-> db, dbSettings |-> dbSettings,
     nextId |-> nextId, clock |-> clock, events |-> << >>]

\* .from('meals').insert([mealData]).select().single()
HandleInsert(input) ==
    IF ~MealRowOk(input) THEN Unchanged("check", << >>)
    ELSE LET row == NewMealRow(input, nextId + 1, clock + 1)
         IN  [code |-> "ok", data |-> <<row>>, db |-> db \cup {row},
              dbSettings |-> dbSettings, nextId |-> nextId + 1,
              clock |-> clock + 1,
              events |-> <<Event("meals", "INSERT", <<row>>, << >>)>>]

\* .from('meals').update(updates).eq('id', id)
HandleUpdate(id, updates) ==
    LET hit == { r \in db : r.id = id }
    IN  IF hit = {} THEN Unchanged("ok", << >>)
        ELSE LET old == CHOOSE r \in hit : TRUE
                 new == UpdatedRow(old, updates, clock + 1)
             IN  IF ~MealRowOk(new)
                    \/ \E r \in db \ {old} : r.id = new.id
                 THEN Unchanged("check", << >>)
                 ELSE [code |-> "ok", data |-> << >>,
                       db |-> (db \ {old}) \cup {new},
                       dbSettings |-> dbSettings, nextId |-> nextId,
                       clock |-> clock + 1,
                       events |-> <<Event("meals", "UPDATE", <<new>>, <<old>>)>>]

\* .from('meals').delete().eq('id', id)
HandleDelete(id) ==
    LET hit == { r \in db : r.id = id }
    IN  IF hit = {} THEN Unchanged("ok", << >>)
        ELSE LET old == CHOOSE r \in hit : TRUE
             IN  [code |-> "ok", data |-> << >>, db |-> db \ {old},
                  dbSettings |-> dbSettings, nextId |-> nextId,
                  clock |-> clock,
                  events |-> <<Event("meals", "DELETE", << >>, <<old>>)>>]

\* .from('settings').update(updates).eq('id', sid).select().single()
HandleUpdateSettings(sid, updates) ==
    LET hit == SelectSeq(dbSettings, LAMBDA r : r.id = sid)
    IN  IF hit = << >> THEN Unchanged("PGRST116", << >>)
        ELSE LET old == hit[1]
                 new == UpdatedRow(old, updates, clock + 1)
             IN  IF ~SettingsRowOk(new) THEN Unchanged("check", << >>)
                 ELSE [code |-> "ok", data |-> <<new>>, db |-> db,
                       dbSettings |->
                           [i \in 1..Len(dbSettings) |->
                               IF dbSettings[i].id = sid THEN new
                               ELSE dbSettings[i]],
                       nextId |-> nextId, clock |-> clock + 1,
                       events |-> <<Event("settings", "UPDATE", <<new>>, <<old>>)>>]

\* .from('meals').select('*').order('created_at', { ascending: false })
HandleSelectMeals == Unchanged("ok", OrderDesc(db))

\* .from('settings').select('*').limit(1).single()
HandleSelectSettings ==
    IF dbSettings = << >> THEN Unchanged("PGRST116", << >>)
    ELSE Unchanged("ok", <<dbSettings[1]>>)

Handle(call) ==
    CASE call.req = "insert" -> HandleInsert(call.fields)
      [] call.req = "update" -> HandleUpdate(call.id, call.fields)
      [] call.req = "delete" -> HandleDelete(call.id)
      [] call.req = "updateSettings" ->
            HandleUpdateSettings(call.sid, call.fields)
      [] call.req = "selectMeals" -> HandleSelectMeals
      [] call.req = "selectSettings" -> HandleSelectSettings

\* the feed delivers a table's events to a joined subscription only
Published(events) == SelectSeq(events, LAMBDA e : sub[e.table] = "joined")

\* the request reaches the tables and is answered
ServerHandles(c) ==
    /\ calls[c].stage = "sent"
    /\ LET r == Handle(calls[c])
       IN  /\ r.nextId <= MaxIds
           /\ db' = r.db
           /\ dbSettings' = r.dbSettings
           /\ nextId' = r.nextId
           /\ clock' = r.clock
           /\ channel' = channel \o Published(r.events)
           /\ calls' = [calls EXCEPT ![c].stage = "answered",
                                     ![c].code = r.code, ![c].data = r.data]
    /\ UNCHANGED <<serviceVars, variant, state, view, lifecycle, sub, ncalls, last,
                   storage, foreign>>

\* the request fails on the way: the tables never see it
RequestFails(c) ==
    /\ calls[c].stage = "sent"
    /\ calls' = [calls EXCEPT ![c].stage = "answered", ![c].code = "neterr"]
    /\ UNCHANGED <<serviceVars, variant, state, view, lifecycle, sub, db, dbSettings,
                   nextId, clock, channel, ncalls, last, storage,
                   foreign>>

\* another session changes the tables: its change is published like any other
Foreign(r) ==
    /\ variant = "remote"
    /\ lifecycle = "mounted"
    /\ ncalls + foreign < MaxOps
    /\ r.code = "ok"
    /\ r.events # << >>
    /\ r.nextId <= MaxIds
    /\ db' = r.db
    /\ dbSettings' = r.dbSettings
    /\ nextId' = r.nextId
    /\ clock' = r.clock
    /\ channel' = channel \o Published(r.events)
    /\ foreign' = foreign + 1
    /\ UNCHANGED <<serviceVars, variant, state, view, lifecycle, sub, calls, ncalls, last,
                   storage>>

ForeignInsert == Foreign(HandleInsert(MealInputs[1]))

ForeignUpdate(id) == Foreign(HandleUpdate(id, MealUpdates[1]))

ForeignDelete(id) == Foreign(HandleDelete(id))

ForeignSettings == Foreign(HandleUpdateSettings("s1", SettingsUpdates[1]))

(***************************************************************************)
(* The continuations: what each action does when its response arrives.     *)
(* Each gives the call as it is left and the reducer actions dispatched.   *)
(***************************************************************************)
Act(type, payload) == [type |-> type, payload |-> payload]

Step(call, acts) == [call |-> call, acts |-> acts]

\* loadData, from an await to the next await or to its end
loadDataDone(call) ==
    LET failed ==
            Step(Resolved(call, << >>, 2),
                 << Act("SET_ERROR", "Failed to load data"),
                    Act("SET_LOADING", FALSE) >>)
    IN  IF call.req = "selectMeals"
        THEN IF call.code # "ok" THEN failed
             ELSE Step([call EXCEPT !.req = "selectSettings", !.stage = "sent",
                                    !.held = call.data, !.code = "",
                                    !.data = << >>], << >>)
        ELSE IF call.code \notin {"ok", "PGRST116"} THEN failed
             ELSE LET acts ==
                          <<Act("SET_MEALS", call.held)>>
                          \o (IF Len(call.data) > 0
                              THEN <<Act("SET_SETTINGS", call.data[1])>>
                              ELSE << >>)
                          \o << Act("SET_ERROR", NULL),
                                Act("SET_LOADING", FALSE) >>
                  IN  Step(Resolved(call, << >>, Len(acts)), acts)

\* addMeal after its await: Promise<void>
\* an addMeal that puts the inserted row in the place of the records held
addMealDoneReplacing(call) ==
    IF call.code = "ok"
    THEN Step(Resolved(call, << >>, 1), <<Act("SET_MEALS", call.data)>>)
    ELSE Step(Rejected(call, 0), << >>)

addMealDone(call) ==
    IF call.code = "ok"
    THEN Step(Resolved(call, << >>, 1), <<Act("ADD_MEAL", call.data[1])>>)
    ELSE Step(Rejected(call, 0), << >>)

\* a continuation of updateMeal that dispatches no field of the update
updateMealDoneNoFields(call) ==
    IF call.code = "ok"
    THEN Step(Resolved(call, << >>, 1),
              <<Act("UPDATE_MEAL", [id |-> call.id, updates |-> [id |-> call.id]])>>)
    ELSE Step(Rejected(call, 0), << >>)

\* a continuation of updateMeal that swallows the failure of its request
updateMealDoneQuiet(call) ==
    IF call.code = "ok"
    THEN Step(Resolved(call, << >>, 1),
              <<Act("UPDATE_MEAL", [id |-> call.id, updates |-> call.fields])>>)
    ELSE Step(Resolved(call, << >>, 0), << >>)

\* updateMeal after its await
updateMealDone(call) ==
    IF call.code = "ok"
    THEN Step(Resolved(call, << >>, 1),
              <<Act("UPDATE_MEAL", [id |-> call.id, updates |-> call.fields])>>)
    ELSE Step(Rejected(call, 0), << >>)

\* a continuation of deleteMeal that removes the record whatever the response
deleteMealDoneOptimistic(call) ==
    Step(IF call.code = "ok" THEN Resolved(call, << >>, 1) ELSE Rejected(call, 1),
         <<Act("DELETE_MEAL", call.id)>>)

\* deleteMeal after its await
deleteMealDone(call) ==
    IF call.code = "ok"
    THEN Step(Resolved(call, << >>, 1), <<Act("DELETE_MEAL", call.id)>>)
    ELSE Step(Rejected(call, 0), << >>)

\* an updateSettings that applies the fields it was given, whatever the answer
updateSettingsDoneUnconfirmed(call) ==
    Step(Resolved(call, << >>, 1), <<Act("SET_SETTINGS", call.fields)>>)

\* updateSettings after its await
updateSettingsDone(call) ==
    IF call.code = "ok"
    THEN Step(Resolved(call, << >>, 1), <<Act("SET_SETTINGS", call.data[1])>>)
    ELSE Step(Rejected(call, 0), << >>)

Done(call) ==
    CASE call.op = "loadData" -> loadDataDone(call)
      [] call.op = "addMeal" -> addMealDone(call)
      [] call.op = "updateMeal" -> updateMealDone(call)
      [] call.op = "deleteMeal" -> deleteMealDone(call)
      [] call.op = "updateSettings" -> updateSettingsDone(call)

\* an import that submits a record with the identifier of the payload
importedMealKeepsId(meal) ==
    Without(meal, {"created_at", "updated_at"})

\* an import that leaves the time of a record to the table's default
importedMealNoTime(meal) ==
    Without(meal, {"id", "created_at", "updated_at", "time"})

\* importData: the argument of the addMeal call made for a payload record
importedMeal(meal) ==
    LET mealData == Without(meal, {"id", "created_at", "updated_at"})
        or(k, dflt) == IF k \in DOMAIN mealData /\ mealData[k] # ""
                       THEN mealData[k] ELSE dflt
    IN  Spread(mealData, [date |-> or("date", Today), time |-> or("time", NowTime)])

\* importData: the argument of its updateSettings call
importedSettings(settings) ==
    Without(settings, {"id", "created_at", "updated_at"})

\* importData, from one await to the next: given the import call p and the
\* call it awaited (or none, at its start), the import as it is left and the
\* call it makes next. The import holds the parsed meals (held, and todo for
\* those not yet submitted) and settings (sets), and keeps count of the addMeal
\* calls it made (made) and of the records they added (data); its stage is
\* "meals" in the loop and "settings" once updateSettings is called.
importDataStep(p, pcall, awaited) ==
    LET got == IF Len(awaited) > 0 /\ awaited[1].outcome = "resolved"
               THEN [pcall EXCEPT
                        !.nd = @ + 1,
                        !.data = IF awaited[1].op = "addMeal"
                                 THEN @ \o awaited[1].data ELSE @]
               ELSE pcall
    IN  IF Len(awaited) > 0 /\ awaited[1].outcome = "rejected"
        THEN [parent |-> Rejected(got, got.nd), inner |-> << >>]
        ELSE IF Len(got.todo) > 0
        THEN [parent |-> [got EXCEPT !.todo = Tail(@), !.made = @ + 1],
              inner |-> <<addMealCall(importedMeal(Head(got.todo)), p)>>]
        ELSE IF Len(got.sets) > 0 /\ got.stage = "meals"
        THEN [parent |-> [got EXCEPT !.stage = "settings"],
              inner |-> <<updateSettingsCall(importedSettings(got.sets[1]),
                                             got.sid, p)>>]
        ELSE [parent |-> Resolved(got, << >>, got.nd), inner |-> << >>]

\* the calls in flight and the call that ended last, after call c was left as
\* call1: an import that awaited c goes on
AfterDone(c, call1) ==
    LET p == call1.parent
    IN  IF call1.stage # "done"
        THEN [calls |-> [calls EXCEPT ![c] = call1], last |-> last]
        ELSE IF p = 0
        THEN [calls |-> Drop(calls, c), last |-> call1]
        ELSE LET n == importDataStep(p, calls[p], <<call1>>)
             IN  IF Len(n.inner) = 0
                 THEN [calls |-> Drop(Drop(calls, c), p), last |-> n.parent]
                 ELSE [calls |-> With(Drop([calls EXCEPT ![p] = n.parent], c),
                                      Free(calls), n.inner[1]),
                       last |-> call1]

\* the response of call c arrives and the action goes on
Response(c) ==
    /\ calls[c].stage = "answered"
    /\ LET d == Done(calls[c])
           a == AfterDone(c, d.call)
       IN  /\ state' = Reduce(variant, state, d.acts)
           /\ calls' = a.calls
           /\ last' = a.last
    /\ view' = state'
    /\ UNCHANGED <<serviceVars, variant, lifecycle, sub, db, dbSettings, nextId,
                   clock, channel, ncalls, storage, foreign>>

\* a handler of the 'meals-changes' channel that ignores deletions
onMealsChangeNoDelete(payload) ==
    CASE payload.eventType = "INSERT" -> <<Act("ADD_MEAL", payload.new[1])>>
      [] payload.eventType = "UPDATE" ->
            <<Act("UPDATE_MEAL", [id |-> payload.new[1].id,
                                  updates |-> payload.new[1]])>>
      [] OTHER -> << >>

\* the handler of the 'meals-changes' channel
onMealsChange(payload) ==
    CASE payload.eventType = "INSERT" -> <<Act("ADD_MEAL", payload.new[1])>>
      [] payload.eventType = "UPDATE" ->
            <<Act("UPDATE_MEAL", [id |-> payload.new[1].id,
                                  updates |-> payload.new[1]])>>
      [] payload.eventType = "DELETE" -> <<Act("DELETE_MEAL", payload.old[1].id)>>
      [] OTHER -> << >>

\* the handler of the 'settings-changes' channel
onSettingsChange(payload) ==
    IF payload.eventType = "UPDATE"
    THEN <<Act("SET_SETTINGS", payload.new[1])>>
    ELSE << >>

\* the feed delivers its oldest pending event to the subscription's handler
PushedEvent ==
    /\ Len(channel) > 0
    /\ LET payload == Head(channel)
       IN  state' = Reduce(variant, state,
                           IF payload.table = "meals" THEN onMealsChange(payload)
                           ELSE onSettingsChange(payload))
    /\ channel' = Tail(channel)
    /\ view' = state'
    /\ UNCHANGED <<serviceVars, variant, lifecycle, sub, db, dbSettings, nextId,
                   clock, calls, ncalls, last, storage, foreign>>

(***************************************************************************)
(* exportData and importData.                                              *)
(***************************************************************************)
\* a text that is not JSON
Garbage ==
    [valid |-> FALSE, has |-> {}, meals |-> << >>, settings |-> << >>,
     exportedAt |-> 0]

\* a backup of two meals, the first of which the tables refuse, and of goals
TwoMealsText ==
    [valid |-> TRUE, has |-> {"meals", "settings"},
     meals |-> << StringifyObject(MealInputs[2], MealKeys),
                  StringifyObject(MealInputs[1], MealKeys) >>,
     settings |-> StringifyObject([daily_calories |-> 1800,
                                   daily_protein |-> 120], SettingsKeys),
     exportedAt |-> 0]

\* exportData reads the state of the render that made the closure
exportData == Stringify(view, clock)

\* the texts importData is given: what exportData returns, or a file
ImportTexts == <<exportData, Garbage, TwoMealsText>>

\* importData up to its first await
importData(t) ==
    /\ variant = "remote"
    /\ CanCall
    /\ ncalls' = ncalls + 1
    /\ LET text == ImportTexts[t]
           p == Free(calls)
           start == [NoCall EXCEPT !.op = "importData", !.stage = "meals",
                                   !.sid = view.settings.id]
       IN  IF ~text.valid
           THEN calls' = calls /\ last' = Rejected(start, 0)
           ELSE LET importedData == Parse(text)
                    pcall == [start EXCEPT
                                !.held = IF "meals" \in importedData.has
                                         THEN importedData.meals ELSE << >>,
                                !.todo = IF "meals" \in importedData.has
                                         THEN importedData.meals ELSE << >>,
                                !.sets = IF "settings" \in importedData.has
                                         THEN <<importedData.settings>>
                                         ELSE << >>]
                    n == importDataStep(p, pcall, << >>)
                IN  IF Len(n.inner) = 0
                    THEN calls' = calls /\ last' = n.parent
                    ELSE /\ calls' = With(With(calls, p, n.parent),
                                          Free(With(calls, p, n.parent)),
                                          n.inner[1])
                         /\ UNCHANGED last
    /\ UNCHANGED <<serviceVars, variant, state, view, lifecycle, sub, db, dbSettings,
                   nextId, clock, channel, storage, foreign>>

(***************************************************************************)
(* part_011: the provider backed by localStorage. Its actions never await: *)
(* each runs to its end in one step.                                       *)
(***************************************************************************)
\* Omit<MealData, 'id' | 'created_at' | 'updated_at'>
MealInputsLS ==
    << [date |-> "2025-07-08", time |-> "12:30", food_name |-> "Test Food",
        amount |-> "100g", calories |-> 200, protein |-> 15, carbs |-> 0,
        fat |-> 0, fiber |-> 0, sugar |-> 0, sodium |-> 0, image_url |-> ""] >>

\* Partial<AppSettings>
SettingsUpdatesLS ==
    << [dailyGoals |-> [calories |-> 1800, protein |-> 120]],
       [dailyGoals |-> [calories |-> 0, protein |-> -1]] >>

\* a meal an earlier session saved
StoredMeal ==
    Spread(MealInputsLS[1], [id |-> 1, created_at |-> 0, updated_at |-> 0])

\* localStorage.getItem gives null for a key never set
Absent == [kind |-> "absent", items |-> << >>]

\* a stored text that is not JSON
Corrupt == [kind |-> "corrupt", items |-> << >>]

\* localStorage.setItem(STORAGE_KEYS.MEALS, JSON.stringify(state.meals)) and
\* localStorage.setItem(STORAGE_KEYS.SETTINGS, JSON.stringify(state.settings))
Saved(s) ==
    [meals |-> [kind |-> "json",
                items |-> [i \in 1..Len(s.meals) |->
                              StringifyObject(s.meals[i], MealKeys)]],
     settings |-> [kind |-> "json",
                   items |-> <<StringifyObject(s.settings, SettingsKeys)>>]]

\* a finished call
Finished(op, outcome, value, nd) ==
    [NoCall EXCEPT !.op = op, !.outcome = outcome, !.value = value, !.nd = nd]

\* part_011: loadData: the actions it dispatches
loadDataLS ==
    IF storage.meals.kind = "corrupt" \/ storage.settings.kind = "corrupt"
    THEN << Act("SET_LOADING", TRUE), Act("SET_ERROR", "Failed to load data") >>
    ELSE LET meals == IF storage.meals.kind = "absent" THEN << >>
                      ELSE [i \in 1..Len(storage.meals.items) |->
                               ParseObject(storage.meals.items[i])]
             settings == IF storage.settings.kind = "absent" THEN initialSettings
                         ELSE Spread(initialSettings,
                                     ParseObject(storage.settings.items[1]))
         IN  << Act("SET_LOADING", TRUE),
                Act("LOAD_DATA", [meals |-> meals, settings |-> settings]) >>

\* part_011: the two effects of the first render: loadData(), then the save
\* effect, which writes the state of that render
MountLS ==
    /\ variant = "local"
    /\ lifecycle = "created"
    /\ lifecycle' = "mounted"
    /\ state' = Reduce(variant, state, loadDataLS)
    /\ last' = Finished("loadData", "resolved", << >>, 2)
    /\ storage' = Saved(view)
    /\ UNCHANGED <<serviceVars, variant, view, sub, db, dbSettings, nextId, clock, channel,
                   calls, ncalls, foreign>>

\* React renders the provider; the save effect runs when state.meals or
\* state.settings changed
RenderLS ==
    /\ variant = "local"
    /\ lifecycle = "mounted"
    /\ view # state
    /\ view' = state
    /\ storage' = IF state.meals # view.meals \/ state.settings # view.settings
                  THEN Saved(state) ELSE storage
    /\ UNCHANGED <<serviceVars, variant, state, lifecycle, sub, db, dbSettings, nextId,
                   clock, channel, calls, ncalls, last, foreign>>

\* part_011: actions.loadData
reloadLS ==
    /\ variant = "local"
    /\ CanCall
    /\ ncalls' = ncalls + 1
    /\ state' = Reduce(variant, state, loadDataLS)
    /\ last' = Finished("loadData", "resolved", << >>, 2)
    /\ UNCHANGED <<serviceVars, variant, view, lifecycle, sub, db, dbSettings, nextId,
                   clock, channel, calls, storage, foreign>>

\* part_011: addMeal: the call as it ends and the actions it dispatches
addMealStepLS(mealData, id, now) ==
    LET newMeal == Spread(mealData, [id |-> id, created_at |-> now,
                                     updated_at |-> now])
    IN  Step(Finished("addMeal", "resolved", <<newMeal>>, 1),
             <<Act("ADD_MEAL", newMeal)>>)

\* part_011: updateMeal: state.meals is read from the render's closure
updateMealStepLS(id, mealData, now) ==
    LET found == SelectSeq(view.meals, LAMBDA m : m.id = id)
    IN  IF Len(found) = 0
        THEN Step([Finished("updateMeal", "rejected", << >>, 1) EXCEPT !.id = id],
                  <<Act("SET_ERROR", "Failed to update meal")>>)
        ELSE LET updatedMeal ==
                     Spread(Spread(found[1], mealData), [updated_at |-> now])
             IN  Step([Finished("updateMeal", "resolved", <<updatedMeal>>, 1)
                          EXCEPT !.id = id],
                      <<Act("UPDATE_MEAL", updatedMeal)>>)

\* part_011: deleteMeal
deleteMealStepLS(id) ==
    Step([Finished("deleteMeal", "resolved", << >>, 1) EXCEPT !.id = id],
         <<Act("DELETE_MEAL", id)>>)

\* part_011: updateSettings
updateSettingsStepLS(settings) ==
    Step([Finished("updateSettings", "resolved", << >>, 1)
             EXCEPT !.fields = settings],
         <<Act("UPDATE_SETTINGS", settings)>>)

\* part_011: importData
importDataStepLS(text) ==
    IF text.valid /\ {"meals", "settings"} \subseteq text.has
    THEN LET parsedData == Parse(text)
         IN  Step([Finished("importData", "resolved", << >>, 2)
                      EXCEPT !.held = parsedData.meals,
                             !.sets = <<parsedData.settings>>],
                  << Act("SET_LOADING", TRUE),
                     Act("LOAD_DATA",
                         [meals |-> parsedData.meals,
                          settings |-> Spread(initialSettings,
                                              parsedData.settings)]) >>)
    ELSE Step(Finished("importData", "rejected", << >>, 2),
              << Act("SET_LOADING", TRUE),
                 Act("SET_ERROR", "Failed to import data") >>)

\* an action of part_011 runs
RunLS(step) ==
    /\ variant = "local"
    /\ CanCall
    /\ ncalls' = ncalls + 1
    /\ state' = Reduce(variant, state, step.acts)
    /\ last' = step.call
    /\ UNCHANGED <<serviceVars, variant, view, lifecycle, sub, db, dbSettings, channel,
                   calls, storage, foreign>>

addMealLS(i) ==
    /\ nextId < MaxIds
    /\ RunLS(addMealStepLS(MealInputsLS[i], nextId + 1, clock + 1))
    /\ nextId' = nextId + 1
    /\ clock' = clock + 1

updateMealLS(id, j) ==
    /\ RunLS(updateMealStepLS(id, MealUpdates[j], clock + 1))
    /\ clock' = clock + 1
    /\ UNCHANGED nextId

deleteMealLS(id) ==
    /\ RunLS(deleteMealStepLS(id))
    /\ UNCHANGED <<nextId, clock>>

updateSettingsLS(j) ==
    /\ RunLS(updateSettingsStepLS(SettingsUpdatesLS[j]))
    /\ UNCHANGED <<nextId, clock>>

\* the texts part_011's importData is given
ImportTextsLS ==
    <<exportData>> \o << Garbage, [valid |-> TRUE, has |-> {"meals"},
                             meals |-> << >>, settings |-> << >>,
                             exportedAt |-> 0] >>

importDataLS(t) ==
    /\ RunLS(importDataStepLS(ImportTextsLS[t]))
    /\ UNCHANGED <<nextId, clock>>

(***************************************************************************)
(* The store after construction, and its steps.                            *)
(***************************************************************************)
(***************************************************************************)
(* GoogleSheetsApiService (the tracking sheet behind a Google Apps Script  *)
(* Web App): addMeal and getMeals, from the call to the promise settling.  *)
(***************************************************************************)
\* JavaScript undefined, false and true as they appear in a response body
UNDEFINED == "<undefined>"
JsFalse == "<false>"
JsTrue == "<true>"

\* !v
Falsy(v) == v \in {UNDEFINED, NULL, JsFalse, ""}

\* a text as its characters
Digits == {"0", "1", "2", "3", "4", "5", "6", "7", "8", "9"}

\* /^\d{4}-\d{2}-\d{2}$/.test(d)
dateRegex(d) ==
    /\ Len(d) = 10
    /\ \A i \in {1, 2, 3, 4, 6, 7, 9, 10} : d[i] \in Digits
    /\ d[5] = "-"
    /\ d[8] = "-"

\* /^\d{2}:\d{2}$/.test(t)
timeRegex(t) ==
    /\ Len(t) = 5
    /\ \A i \in {1, 2, 4, 5} : t[i] \in Digits
    /\ t[3] = ":"

\* MealData, with date and time as their characters
mockMealData ==
    [date |-> <<"2", "0", "2", "5", "-", "0", "7", "-", "0", "8">>,
     time |-> <<"1", "2", ":", "3", "0">>,
     food_name |-> "Test Food", amount |-> "100g", calories |-> 200,
     protein |-> 15, image_url |-> ""]

\* the meals addMeal of the service is given: the record of the tests, a
\* record with zero calories, and records that validateMealData refuses
SheetMeals ==
    << mockMealData,
       [mockMealData EXCEPT !.calories = 0],
       [mockMealData EXCEPT !.calories = -1],
       [mockMealData EXCEPT !.protein = -1],
       [mockMealData EXCEPT !.food_name = ""],
       [mockMealData EXCEPT !.date = <<"8", "/", "7", "/", "2", "5">>],
       [mockMealData EXCEPT !.time = << >>],
       [mockMealData EXCEPT !.time = <<"1", "2", ":", "3", "0", ":", "0", "0">>] >>

\* the startDate and endDate getMeals is given: a date, or none
DateArgs == {UNDEFINED, "2025-07-01"}

\* a thrown value: an Error with its name and message, or something else
Err(name, message) == [isError |-> TRUE, name |-> name, message |-> message]
NotAnError == [isError |-> FALSE, name |-> "", message |-> ""]

\* what a call evaluates to: a value, or a throw
Returned(value) == [threw |-> FALSE, error |-> NotAnError, value |-> value]
Thrown(error) == [threw |-> TRUE, error |-> error, value |-> << >>]

\* validateMealData: the Error it throws, or none
validateMealData(meal) ==
    LET missingText(field) == IF field \in {"date", "time"}
                              THEN meal[field] = << >>
                              ELSE meal[field] = ""
        missing == SelectSeq(<<"date", "time", "food_name", "amount">>,
                             missingText)
    IN  IF missing # << >>
        THEN <<Err("Error", "Missing required field: " \o missing[1])>>
        ELSE IF meal.calories < 0
        THEN <<Err("Error", "Calories must be a positive number")>>
        ELSE IF meal.protein < 0
        THEN <<Err("Error", "Protein must be a positive number")>>
        ELSE IF ~dateRegex(meal.date)
        THEN <<Err("Error", "Date must be in YYYY-MM-DD format")>>
        ELSE IF ~timeRegex(meal.time)
        THEN <<Err("Error", "Time must be in HH:MM format")>>
        ELSE << >>

\* the HTTP statuses of the responses; response.ok
Statuses == {200, 404, 500}
ResponseOk(status) == status \in 200..299

\* the bodies of the responses: a text that is not JSON, the JSON null, and
\* objects with or without a success and an error field
Unparsable == [kind |-> "unparsable", success |-> UNDEFINED, error |-> UNDEFINED]
JsonNull == [kind |-> "null", success |-> UNDEFINED, error |-> UNDEFINED]
JsonObject(success, error) ==
    [kind |-> "object", success |-> success, error |-> error]

Bodies ==
    { Unparsable, JsonNull,
      JsonObject(JsTrue, UNDEFINED),
      JsonObject(JsFalse, "Sheet not found"),
      JsonObject(JsFalse, UNDEFINED),
      JsonObject(JsFalse, ""),
      JsonObject(UNDEFINED, UNDEFINED) }

\* what fetch rejects with when the network fails: the TypeError of the
\* platform, or a value that is not an Error
FetchErrors == { Err("TypeError", "Failed to fetch"), NotAnError }

\* controller.abort() makes fetch reject with this
AbortError == Err("AbortError", "The operation was aborted.")

\* makeRequest: its catch block
makeRequestCatch(error) ==
    IF error.isError
    THEN IF error.name = "AbortError"
         THEN Thrown(Err("Error", "Request timeout - please check your internet connection"))
         ELSE Thrown(Err("Error", "Network error: " \o error.message))
    ELSE Thrown(Err("Error", "Unknown error occurred"))

\* makeRequest once fetch has resolved with a status that is not OK
makeRequestNotOk(status) ==
    makeRequestCatch(Err("Error", "HTTP error! status: " \o ToString(status)))

\* makeRequest once response.json() has settled
makeRequestJson(body) ==
    IF body.kind = "unparsable"
    THEN makeRequestCatch(Err("SyntaxError", "Unexpected token < in JSON"))
    ELSE Returned(body)

\* the result of the failure: ApiResponse with success: false
Failure(op, message) ==
    [success |-> JsFalse, error |-> message,
     data |-> IF op = "getMeals" THEN "[]" ELSE UNDEFINED]

\* a call that lets the error leave
sheetsCatchRethrows(s, error) ==
    [s EXCEPT !.stage = "settled", !.outcome = "rejected",
              !.result = Failure(s.op, UNDEFINED)]

\* the catch block of addMeal and of getMeals
sheetsCatch(s, error) ==
    [s EXCEPT !.stage = "settled", !.outcome = "resolved",
              !.result = Failure(s.op,
                                 IF error.isError THEN error.message
                                 ELSE IF s.op = "addMeal"
                                      THEN "Failed to add meal"
                                      ELSE "Failed to fetch meals")]

\* addMeal and getMeals after `await this.makeRequest(...)`
sheetsAfterRequest(s, r) ==
    IF r.threw THEN sheetsCatch(s, r.error)
    ELSE IF r.value.kind = "null"
    THEN sheetsCatch(s, Err("TypeError",
                            "Cannot read properties of null (reading 'success')"))
    ELSE IF Falsy(r.value.success)
    THEN sheetsCatch(s, Err("Error",
                            IF ~Falsy(r.value.error) THEN r.value.error
                            ELSE IF s.op = "addMeal" THEN "Failed to add meal"
                                 ELSE "Failed to fetch meals"))
    ELSE [s EXCEPT !.stage = "settled", !.outcome = "resolved",
                   !.result = [success |-> r.value.success,
                               error |-> r.value.error,
                               data |-> "data"]]

\* no call of the service is under way
sheetsIdle ==
    [op |-> "none", stage |-> "idle",
     request |-> [method |-> "", url |-> << >>, body |-> 0], fetch |-> "none",
     status |-> 0, body |-> JsonNull, outcome |-> "pending",
     result |-> Failure("none", UNDEFINED)]

\* googleSheetsApi.addMeal(meal), up to its await or to its end
sheetsAddMeal(i) ==
    /\ sheets.stage = "idle"
    /\ LET meal == SheetMeals[i]
           s == [sheetsIdle EXCEPT !.op = "addMeal"]
           invalid == validateMealData(meal)
       IN  sheets' = IF invalid # << >> THEN sheetsCatch(s, invalid[1])
                     ELSE [s EXCEPT !.stage = "fetching",
                                    !.request = [method |-> "POST",
                                                  url |-> <<"baseUrl">>,
                                                  body |-> i]]
    /\ UNCHANGED <<storeVars, besideSheets>>

\* googleSheetsApi.getMeals(startDate, endDate), up to its await
sheetsGetMeals(startDate, endDate) ==
    /\ sheets.stage = "idle"
    /\ LET params == (IF ~Falsy(startDate)
                      THEN <<"startDate=" \o startDate>> ELSE << >>)
                     \o (IF ~Falsy(endDate)
                         THEN <<"endDate=" \o endDate>> ELSE << >>)
           url == IF params # << >> THEN <<"baseUrl", "?">> \o params
                  ELSE <<"baseUrl">>
       IN  sheets' = [sheetsIdle EXCEPT !.op = "getMeals",
                                        !.stage = "fetching",
                                        !.request = [method |-> "GET", url |-> url,
                                                     body |-> 0]]
    /\ UNCHANGED <<storeVars, besideSheets>>

\* fetch rejects: the network failed
FetchRejects(error) ==
    /\ sheets.stage = "fetching"
    /\ sheets' = sheetsAfterRequest([sheets EXCEPT !.fetch = "rejected"],
                                    makeRequestCatch(error))
    /\ UNCHANGED <<storeVars, besideSheets>>

\* the timer of makeRequest fires after this.timeout: controller.abort()
TimerFires ==
    /\ sheets.stage = "fetching"
    /\ sheets' = sheetsAfterRequest([sheets EXCEPT !.fetch = "aborted"],
                                    makeRequestCatch(AbortError))
    /\ UNCHANGED <<storeVars, besideSheets>>

\* fetch resolves with a response: the timer is cleared, and makeRequest goes
\* on to `await response.json()` when the status is OK
FetchResolves(status, body) ==
    /\ sheets.stage = "fetching"
    /\ LET s == [sheets EXCEPT !.fetch = "resolved", !.status = status,
                               !.body = body]
       IN  sheets' = IF ~ResponseOk(status)
                     THEN sheetsAfterRequest(s, makeRequestNotOk(status))
                     ELSE [s EXCEPT !.stage = "parsing"]
    /\ UNCHANGED <<storeVars, besideSheets>>

\* response.json() settles
JsonSettles ==
    /\ sheets.stage = "parsing"
    /\ sheets' = sheetsAfterRequest(sheets, makeRequestJson(sheets.body))
    /\ UNCHANGED <<storeVars, besideSheets>>

(***************************************************************************)
(* GoogleSheetsApiService.getSummaryStats: the statistics of the meals     *)
(* that getMeals fetched.                                                  *)
(***************************************************************************)
\* the longest list of meals a response carries in the model
MaxMeals == 3

\* the meals of a response, by their calories and protein
StatMeals ==
    { [calories |-> 200, protein |-> 15], [calories |-> 300, protein |-> 25],
      [calories |-> 301, protein |-> 0], [calories |-> 0, protein |-> 1],
      [calories |-> 150, protein |-> 10] }

\* the lists of at most n meals
RECURSIVE MealLists(_)
MealLists(n) ==
    IF n = 0 THEN {<< >>}
    ELSE LET shorter == MealLists(n - 1)
         IN  shorter \cup { Append(ms, m) : ms \in shorter, m \in StatMeals }

\* the data field of an ApiResponse: an array, nothing, or something else
DataArray(items) == [kind |-> "array", items |-> items]
DataMissing == [kind |-> "undefined", items |-> << >>]
DataInvalid == [kind |-> "string", items |-> << >>]

\* what `await this.getMeals(startDate, endDate)` gives getSummaryStats: the
\* failure of getMeals (success false, data []), or the body of the response
MealsResponses ==
    { [success |-> JsFalse, data |-> DataArray(<< >>)] }
    \cup { [success |-> JsTrue, data |-> d] :
              d \in { DataArray(ms) : ms \in MealLists(MaxMeals) }
                    \cup {DataMissing, DataInvalid} }

\* meals.reduce((sum, meal) => sum + meal[field], 0)
RECURSIVE ReduceSum(_, _)
ReduceSum(meals, field) ==
    IF meals = << >> THEN 0
    ELSE ReduceSum(SubSeq(meals, 1, Len(meals) - 1), field)
         + meals[Len(meals)][field]

\* a division that drops the fraction
MathTrunc(num, den) == num \div den

\* Math.round(num / den) for den > 0: the nearest whole number, a half going up
MathRound(num, den) == (2 * num + den) \div (2 * den)

\* the SummaryStats returned when there is nothing to count
NoStats ==
    [totalMeals |-> 0, totalCalories |-> 0, totalProtein |-> 0,
     avgCalories |-> 0, avgProtein |-> 0]

\* getSummaryStats after its await. avgProtein, a number with one decimal, is
\* held in tenths: Math.round(x * 10) before the division by 10.
SummaryStats(mealsResponse) ==
    IF Falsy(mealsResponse.success) \/ mealsResponse.data.kind = "undefined"
    THEN [outcome |-> "resolved", stats |-> NoStats]
    ELSE IF mealsResponse.data.kind # "array"
    THEN \* meals.reduce is not a function: the catch block
         [outcome |-> "resolved", stats |-> NoStats]
    ELSE LET meals == mealsResponse.data.items
             totalMeals == Len(meals)
             totalCalories == ReduceSum(meals, "calories")
             totalProtein == ReduceSum(meals, "protein")
         IN  [outcome |-> "resolved",
              stats |->
                 [totalMeals |-> totalMeals,
                  totalCalories |-> totalCalories,
                  totalProtein |-> totalProtein,
                  avgCalories |-> IF totalMeals > 0
                                  THEN MathRound(totalCalories, totalMeals)
                                  ELSE 0,
                  avgProtein |-> IF totalMeals > 0
                                 THEN MathRound(totalProtein * 10, totalMeals)
                                 ELSE 0]]

\* no getSummaryStats has been called
statsIdle ==
    [called |-> FALSE,
     response |-> [success |-> JsFalse, data |-> DataArray(<< >>)],
     outcome |-> "pending", stats |-> NoStats]

\* googleSheetsApi.getSummaryStats(), with what getMeals gave it
getSummaryStats(mealsResponse) ==
    /\ LET r == SummaryStats(mealsResponse)
       IN  stats' = [called |-> TRUE, response |-> mealsResponse,
                     outcome |-> r.outcome, stats |-> r.stats]
    /\ UNCHANGED <<storeVars, besideStats>>

(***************************************************************************)
(* validationSchemas: mealEntrySchema and the field helpers. zod's checks  *)
(* (min, max, int, multipleOf, the type check) are taken as documented.    *)
(***************************************************************************)
\* .min(0) and .max(10000) of calories, .max(1000) of protein
MinCalories == 0
MaxCalories == 10000
MaxProtein == 1000

\* a JavaScript number held in tenths, and the values that are no finite number
Num(tenths) == [kind |-> "number", tenths |-> tenths]
NaN == [kind |-> "NaN", tenths |-> 0]
PosInfinity == [kind |-> "Infinity", tenths |-> 0]
NegInfinity == [kind |-> "-Infinity", tenths |-> 0]
NumericText == [kind |-> "string", tenths |-> 2500]
Missing == [kind |-> "undefined", tenths |-> 0]

\* the calories the validation is given: the values of the tests, the values
\* around both ends of the range in steps of a tenth, and the values that are
\* no finite number
CaloriesInputs ==
    { Num(t) : t \in (-30..30) \cup (99970..100030)
                     \cup {-100, 2500, 2505, 150000} }
    \cup {NaN, PosInfinity, NegInfinity, NumericText, Missing}

\* value < n and value > n
Less(v, n) == v.kind = "-Infinity" \/ (v.kind = "number" /\ v.tenths < 10 * n)
GreaterOrEqual(v, n) ==
    v.kind = "Infinity" \/ (v.kind = "number" /\ v.tenths >= 10 * n)
Greater(v, n) == v.kind = "Infinity" \/ (v.kind = "number" /\ v.tenths > 10 * n)

\* Number.isInteger(value)
IsInteger(v) == v.kind = "number" /\ v.tenths % 10 = 0

\* z.number(...): the issue of the type check, or none
zNumber(v, required_error, invalid_type_error) ==
    IF v.kind = "undefined" THEN <<required_error>>
    ELSE IF v.kind \in {"NaN", "string"} THEN <<invalid_type_error>>
    ELSE << >>

\* mealEntrySchema.shape.calories: the issues of a value
caloriesIssues(v) ==
    LET typed == zNumber(v, "Calories is required", "Calories must be a number")
    IN  IF typed # << >> THEN typed
        ELSE (IF Less(v, MinCalories)
              THEN <<"Calories cannot be negative">> ELSE << >>)
             \o (IF Greater(v, MaxCalories)
                 THEN <<"Calories seems too high (max 10,000)">> ELSE << >>)
             \o (IF ~IsInteger(v)
                 THEN <<"Calories must be a whole number">> ELSE << >>)

\* mealEntrySchema.shape.protein: the issues of a value; a multiple of 0.1 is
\* a whole number of tenths
proteinIssues(v) ==
    LET typed == zNumber(v, "Protein is required", "Protein must be a number")
    IN  IF typed # << >> THEN typed
        ELSE (IF Less(v, 0) THEN <<"Protein cannot be negative">> ELSE << >>)
             \o (IF Greater(v, MaxProtein)
                 THEN <<"Protein seems too high (max 1,000g)">> ELSE << >>)
             \o (IF v.kind # "number"
                 THEN <<"Protein can have at most 1 decimal place">>
                 ELSE << >>)

\* a text by what the string checks read: its length, and whether every
\* character is one the field's regex allows
Text(len, allowed) == [len |-> len, allowed |-> allowed]

\* mealEntrySchema.shape.foodName: the issues of a text
foodNameIssues(t) ==
    (IF t.len < 1 THEN <<"Food name is required">> ELSE << >>)
    \o (IF t.len < 2 THEN <<"Food name must be at least 2 characters">>
        ELSE << >>)
    \o (IF t.len > 100 THEN <<"Food name must be less than 100 characters">>
        ELSE << >>)
    \o (IF ~t.allowed \/ t.len < 1
        THEN <<"Food name contains invalid characters">> ELSE << >>)

\* mealEntrySchema.shape.amount: the issues of a text
amountIssues(t) ==
    (IF t.len < 1 THEN <<"Amount is required">> ELSE << >>)
    \o (IF t.len > 50 THEN <<"Amount must be less than 50 characters">>
        ELSE << >>)
    \o (IF ~t.allowed \/ t.len < 1
        THEN <<"Amount contains invalid characters">> ELSE << >>)

\* the other fields of the entry: those of the tests ('Test Food', '150g',
\* 30.5), and those with an empty food name
OtherFields ==
    { [foodName |-> Text(9, TRUE), amount |-> Text(4, TRUE), protein |-> Num(305)],
      [foodName |-> Text(0, TRUE), amount |-> Text(4, TRUE), protein |-> Num(305)] }

\* mealEntrySchema.safeParse(entry): the issues, each with the field it is on
mealEntrySchema(entry) ==
    [path \in {"foodName", "amount", "calories", "protein"} |->
        CASE path = "foodName" -> foodNameIssues(entry.foodName)
          [] path = "amount" -> amountIssues(entry.amount)
          [] path = "calories" -> caloriesIssues(entry.calories)
          [] path = "protein" -> proteinIssues(entry.protein)]

\* safeParse(...).success
Success(issues) == \A path \in DOMAIN issues : issues[path] = << >>

\* isValidCalories(calories)
isValidCalories(v) == caloriesIssues(v) = << >>

\* nothing has been validated
formIdle ==
    [checked |-> FALSE, calories |-> Missing,
     others |-> [foodName |-> Text(0, TRUE), amount |-> Text(0, TRUE),
                 protein |-> Missing],
     isValidCalories |-> FALSE, success |-> FALSE,
     issues |-> [path \in {"foodName", "amount", "calories", "protein"} |-> << >>]]

\* an entry is validated, by the field helper and by the schema
validateEntry(v, others) ==
    /\ LET parsed == mealEntrySchema([foodName |-> others.foodName,
                                      amount |-> others.amount,
                                      calories |-> v,
                                      protein |-> others.protein])
       IN  form' = [checked |-> TRUE, calories |-> v, others |-> others,
                    isValidCalories |-> isValidCalories(v),
                    success |-> Success(parsed), issues |-> parsed]
    /\ UNCHANGED <<storeVars, besideForm>>

(***************************************************************************)
(* useGoogleSheets: the hook that keeps the meals of the tracking sheet.   *)
(* A step is an event (mount, online/offline, timer, a call, a response)   *)
(* with the renders and effects that follow it.                            *)
(***************************************************************************)
\* fetches the hook starts in one behaviour
MaxFetches == 4

\* the error texts of the hook
NoInternet == "No internet connection. Using cached data."
FetchFailed == "Failed to fetch meals"

\* a call of refreshMeals or getRecentMeals past its first statements, waiting
\* for getMeals (stage "meals") or for getSummaryStats (stage "stats")
Pending(op, stage) == [op |-> op, stage |-> stage]

\* the hook before it is mounted: the useState initial values
hookIdle ==
    [mounted |-> FALSE, isOnline |-> FALSE, isLoading |-> TRUE,
     error |-> NULL, meals |-> "none", cache |-> "absent",
     inflight |-> << >>, started |-> 0, finished |-> FALSE]

\* a fetch helper of the hook up to its await: offline it sets the error and
\* returns, online it sets isLoading, clears the error and asks for the meals
startFetch(h, op) ==
    IF ~h.isOnline
    THEN [h EXCEPT !.error = NoInternet, !.finished = TRUE]
    ELSE [h EXCEPT !.isLoading = TRUE, !.error = NULL,
                   !.inflight = Append(@, Pending(op, "meals")),
                   !.started = @ + 1]

\* refreshMeals() up to its await
refreshMealsStart(h) == startFetch(h, "refreshMeals")

\* the effects that run after a render: the initial-load effect runs again
\* when refreshMeals is a new function (isOnline changed), the online effect
\* runs when isOnline or error changed and refreshes when the render is online
\* with an error. The renders caused by the refreshes find nothing to do.
runEffects(old, new) ==
    LET loaded == IF new.isOnline # old.isOnline
                  THEN refreshMealsStart(new) ELSE new
    IN  IF (new.isOnline # old.isOnline \/ new.error # old.error)
           /\ new.isOnline /\ new.error # NULL
        THEN refreshMealsStart(loaded)
        ELSE loaded

\* the hook is mounted: navigator.onLine, what localStorage holds, and the
\* initial load
HookMount(online, cache) ==
    /\ ~hook.mounted
    /\ hook' = refreshMealsStart([hookIdle EXCEPT !.mounted = TRUE,
                                                  !.isOnline = online,
                                                  !.cache = cache])
    /\ UNCHANGED <<storeVars, besideHook>>

\* a step of the mounted hook that leaves it as h, within the bound
HookStep(h) ==
    /\ hook.mounted
    /\ h.started <= MaxFetches
    /\ hook' = h
    /\ UNCHANGED <<storeVars, besideHook>>

\* the 'online' and 'offline' events of the window
OnlineChanges(online) ==
    /\ hook.isOnline # online
    /\ HookStep(runEffects(hook, [hook EXCEPT !.isOnline = online]))

\* a tick of the 5-minute timer, which runs while the hook is online
TimerTick ==
    /\ hook.isOnline
    /\ HookStep(refreshMealsStart(hook))

\* the user of the hook calls getRecentMeals(days)
getRecentMealsCall ==
    HookStep(runEffects(hook, startFetch(hook, "getRecentMeals")))

\* the call without its i-th pending part
Settle(h, i) ==
    [h EXCEPT !.inflight = SubSeq(@, 1, i - 1) \o SubSeq(@, i + 1, Len(@))]

\* getMeals (getRecentMeals) answers the i-th pending call with meals:
\* refreshMeals stores and caches them and goes on to getSummaryStats,
\* getRecentMeals stores and caches them and ends
MealsArrive(i) ==
    /\ i \in 1..Len(hook.inflight)
    /\ hook.inflight[i].stage = "meals"
    /\ LET got == [hook EXCEPT !.meals = "fetched", !.cache = "valid"]
       IN  HookStep(
             IF hook.inflight[i].op = "refreshMeals"
             THEN [got EXCEPT !.inflight[i].stage = "stats", !.started = @ + 1]
             ELSE [Settle(got, i) EXCEPT !.isLoading = FALSE,
                                         !.finished = TRUE])

\* getSummaryStats answers (it never rejects): refreshMeals ends
StatsArrive(i) ==
    /\ i \in 1..Len(hook.inflight)
    /\ hook.inflight[i].stage = "stats"
    /\ HookStep([Settle(hook, i) EXCEPT !.isLoading = FALSE,
                                       !.finished = TRUE])

\* getMeals answers the i-th pending call with success false: the catch block
\* sets the error (refreshMeals falls back on the cached meals), finally
\* clears isLoading, and the effects run on the new error
MealsFail(i) ==
    /\ i \in 1..Len(hook.inflight)
    /\ hook.inflight[i].stage = "meals"
    /\ LET failed == [Settle(hook, i) EXCEPT
                         !.error = FetchFailed,
                         !.meals = IF hook.inflight[i].op = "refreshMeals"
                                      /\ hook.cache = "valid"
                                   THEN "cached" ELSE @,
                         !.isLoading = FALSE,
                         !.finished = TRUE]
       IN  HookStep(runEffects(hook, failed))

(***************************************************************************)
(* NotificationService (scheduled notifications and their timers) and the  *)
(* reminders of useNotifications (part_013).                               *)
(***************************************************************************)
\* timers pending at once for one schedule
MaxTimers == 2

\* the identifiers of the reminders of useNotifications, and one of another
\* notification
MealReminderIds == {"breakfast-reminder", "lunch-reminder", "dinner-reminder"}
HydrationHours == {9, 11, 13, 15, 17, 19}
HydrationReminderIds ==
    { "hydration-reminder-" \o ToString(hour) : hour \in HydrationHours }
ReminderIds == MealReminderIds \cup HydrationReminderIds
ScheduleIds == ReminderIds \cup {"weekly-summary"}

\* a pending timer: its timeoutId, the schedule it shows, and whether
\* cancelScheduledNotification has returned for that schedule since
\* scheduleNotification was last called for it
\* NotificationSchedule, with scheduledTime by whether it has passed
Schedule(id, recurring, enabled, due) ==
    [id |-> id, recurring |-> recurring, enabled |-> enabled, due |-> due]

\* the identifiers callers other than the reminders schedule and cancel
CallerIds == {"breakfast-reminder", "weekly-summary"}

\* the schedules scheduleNotification is given by those callers
Schedules ==
    { Schedule(id, recurring, enabled, due) :
        id \in CallerIds,
        recurring \in {"none", "daily", "weekly"},
        enabled \in BOOLEAN,
        due \in {"past", "future"} }

\* the reminder of useNotifications for an identifier: daily, at a time that
\* is still to come
Reminder(id) == Schedule(id, "daily", TRUE, "future")

\* the service and the hook at the start: no timer, Map empty, the default
\* settings, notifications enabled; reminded tells that scheduleReminders
\* has returned and nothing but timers has acted since
notifIdle ==
    [timers |-> {},
     scheduledNotifications |-> [id \in ScheduleIds |-> 0],
     settings |-> [mealReminders |-> TRUE, hydrationReminders |-> TRUE],
     isEnabled |-> TRUE,
     reminded |-> FALSE]

\* the timers pending for a schedule
TimersOf(n, id) == { t \in n.timers : t.id = id }

\* the identifier window.setTimeout returns: one no pending timer has (the
\* timers of a schedule are told apart only from each other, the Map holding
\* an identifier under the schedule it was made for)
timeoutId(n, id) ==
    CHOOSE k \in 1..(Cardinality(TimersOf(n, id)) + 1) :
        /\ \A t \in TimersOf(n, id) : t.tid # k
        /\ \A j \in 1..(k - 1) : \E t \in TimersOf(n, id) : t.tid = j

\* window.setTimeout(...) and this.scheduledNotifications.set(id, timeoutId)
setTimer(n, s) ==
    [n EXCEPT !.timers = @ \cup {[tid |-> timeoutId(n, s.id), id |-> s.id,
                                  recurring |-> s.recurring,
                                  cancelled |-> FALSE]},
              !.scheduledNotifications[s.id] = timeoutId(n, s.id)]

\* a scheduleNotification that first clears the timer the Map holds
setTimerCleared(n, s) ==
    setTimer([n EXCEPT !.timers =
                         { t \in @ : t.id = s.id
                                      => t.tid # n.scheduledNotifications[s.id] }],
             s)

\* scheduleNotification(schedule): a time that has passed is moved on day by
\* day when the schedule is daily, and dropped otherwise
scheduleNotification(n, s) ==
    LET called == [n EXCEPT !.timers = { IF t.id = s.id
                                         THEN [t EXCEPT !.cancelled = FALSE]
                                         ELSE t : t \in @ }]
    IN  IF ~s.enabled THEN called
        ELSE IF s.due = "past" /\ s.recurring # "daily" THEN called
        ELSE setTimer(called, s)

\* cancelScheduledNotification(scheduleId)
cancelScheduledNotification(n, id) ==
    LET mapped == n.scheduledNotifications[id]
        cleared == IF mapped # 0
                   THEN [n EXCEPT
                            !.timers = { t \in @ : t.id = id => t.tid # mapped },
                            !.scheduledNotifications[id] = 0]
                   ELSE n
    IN  [cleared EXCEPT !.timers = { IF t.id = id
                                     THEN [t EXCEPT !.cancelled = TRUE]
                                     ELSE t : t \in @ }]

\* a forEach over identifiers, in some order (the order does not matter: the
\* calls touch different identifiers)
RECURSIVE ForEach(_, _, _)
ForEach(n, ids, op) ==
    IF ids = {} THEN n
    ELSE LET id == CHOOSE i \in ids : TRUE
             next == IF op = "cancel" THEN cancelScheduledNotification(n, id)
                     ELSE scheduleNotification(n, Reminder(id))
         IN  ForEach(next, ids \ {id}, op)

\* cancelAllReminders()
cancelAllReminders(n) == ForEach(n, ReminderIds, "cancel")

\* a scheduleReminders that cancels the reminders before it looks at the
\* settings
scheduleRemindersCancelFirst(n) ==
    LET none == cancelAllReminders(n)
    IN  IF ~n.settings.mealReminders \/ ~n.isEnabled THEN none
        ELSE ForEach(ForEach(none,
                             IF n.settings.hydrationReminders
                             THEN HydrationReminderIds ELSE {},
                             "schedule"),
                     MealReminderIds, "schedule")

\* scheduleReminders(dailyGoals)
scheduleReminders(n) ==
    IF ~n.settings.mealReminders \/ ~n.isEnabled THEN n
    ELSE ForEach(ForEach(cancelAllReminders(n),
                         IF n.settings.hydrationReminders
                         THEN HydrationReminderIds ELSE {},
                         "schedule"),
                 MealReminderIds, "schedule")

\* a step of the service that leaves it as n, within the bound
NotifStep(n) ==
    /\ \A id \in ScheduleIds : Cardinality(TimersOf(n, id)) <= MaxTimers
    /\ notif' = n
    /\ UNCHANGED <<storeVars, besideNotif>>

\* a call from outside that leaves the service as n
NotifCall(n) == NotifStep([n EXCEPT !.reminded = FALSE])

\* notificationService.scheduleNotification(schedule), called from outside
ScheduleCalled(s) == NotifCall(scheduleNotification(notif, s))

\* notificationService.cancelScheduledNotification(id), called from outside
CancelCalled(id) == NotifCall(cancelScheduledNotification(notif, id))

\* the user of useNotifications calls scheduleReminders
RemindersScheduled ==
    NotifStep([scheduleReminders(notif) EXCEPT !.reminded = TRUE])

\* the user of useNotifications calls cancelAllReminders
RemindersCancelled == NotifCall(cancelAllReminders(notif))

\* updateSettings(newSettings) of useNotifications
NotifSettingsUpdated(mealReminders, hydrationReminders) ==
    /\ notif.settings # [mealReminders |-> mealReminders,
                         hydrationReminders |-> hydrationReminders]
    /\ NotifCall([notif EXCEPT !.settings =
                     [mealReminders |-> mealReminders,
                      hydrationReminders |-> hydrationReminders]])

\* setEnabled(enabled) of useNotifications: the hook's state and the
\* 'notifications-enabled' entry of localStorage
NotifEnabledSet(enabled) ==
    /\ notif.isEnabled # enabled
    /\ NotifCall([notif EXCEPT !.isEnabled = enabled])

\* show(options): whether the notification is displayed, which it is not
\* when notifications are disabled
show(n) == n.isEnabled

\* a pending timer fires: show(...), and a recurring schedule is scheduled
\* again
NotifTimerFires(t) ==
    /\ t \in notif.timers
    /\ LET fired == [notif EXCEPT !.timers = @ \ {t}]
       IN  NotifStep(IF t.recurring \in {"daily", "weekly"}
                     THEN scheduleNotification(
                              fired, Schedule(t.id, t.recurring, TRUE, "future"))
                     ELSE fired)

InitRemote ==
    /\ variant = "remote"
    /\ state = initialState
    /\ dbSettings = <<DefaultSettingsRow>>
    /\ \/ /\ db = {}
          /\ nextId = 0
       \/ /\ db = {NewMealRow(MealInputs[1], 1, 0)}
          /\ nextId = 1
    /\ storage = [meals |-> Absent, settings |-> Absent]

InitLocal ==
    /\ variant = "local"
    /\ state = initialStateLS
    /\ db = {}
    /\ dbSettings = << >>
    /\ \/ /\ storage = [meals |-> Absent, settings |-> Absent]
          /\ nextId = 0
       \/ /\ storage = [meals |-> Corrupt, settings |-> Absent]
          /\ nextId = 0
       \/ /\ storage = Saved([meals |-> <<StoredMeal>>,
                              settings |-> initialSettings])
          /\ nextId = 1

Init ==
    /\ InitRemote \/ InitLocal
    /\ view = state
    /\ lifecycle = "created"
    /\ sub = [meals |-> "closed", settings |-> "closed"]
    /\ clock = 0
    /\ channel = << >>
    /\ calls = << >>
    /\ ncalls = 0
    /\ last = NoCall
    /\ foreign = 0
    /\ sheets = sheetsIdle
    /\ stats = statsIdle
    /\ form = formIdle
    /\ hook = hookIdle
    /\ notif = notifIdle

Next ==
    \/ Mount
    \/ SubJoined
    \/ Unmount
    \/ refreshData
    \/ \E i \in 1..Len(MealInputs) : addMeal(i)
    \/ \E id \in KnownIds, j \in 1..Len(MealUpdates) : updateMeal(id, j)
    \/ \E id \in KnownIds : deleteMeal(id)
    \/ \E j \in 1..Len(SettingsUpdates) : updateSettings(j)
    \/ \E t \in 1..Len(ImportTexts) : importData(t)
    \/ \E c \in CallIds : ServerHandles(c)
    \/ \E c \in CallIds : RequestFails(c)
    \/ \E c \in CallIds : Response(c)
    \/ ForeignInsert
    \/ \E id \in KnownIds : ForeignUpdate(id)
    \/ \E id \in KnownIds : ForeignDelete(id)
    \/ ForeignSettings
    \/ PushedEvent
    \/ MountLS
    \/ RenderLS
    \/ reloadLS
    \/ \E i \in 1..Len(MealInputsLS) : addMealLS(i)
    \/ \E id \in KnownIds, j \in 1..Len(MealUpdates) : updateMealLS(id, j)
    \/ \E id \in KnownIds : deleteMealLS(id)
    \/ \E j \in 1..Len(SettingsUpdatesLS) : updateSettingsLS(j)
    \/ \E t \in 1..Len(ImportTextsLS) : importDataLS(t)

Spec == Init /\ [][Next]_vars

\* a call of the Google Sheets service, beside a store that is not mounted
InitSheets ==
    /\ Init
    /\ variant = "remote"
    /\ db = {}

NextSheets ==
    \/ \E i \in 1..Len(SheetMeals) : sheetsAddMeal(i)
    \/ \E startDate \in DateArgs, endDate \in DateArgs :
          sheetsGetMeals(startDate, endDate)
    \/ \E error \in FetchErrors : FetchRejects(error)
    \/ TimerFires
    \/ \E status \in Statuses, body \in Bodies : FetchResolves(status, body)
    \/ JsonSettles

SpecSheets == InitSheets /\ [][NextSheets]_vars

\* calls of getSummaryStats, one after the other
NextStats == \E mealsResponse \in MealsResponses : getSummaryStats(mealsResponse)

SpecStats == InitSheets /\ [][NextStats]_vars

\* validations of a meal entry, one after the other
NextForm ==
    \E v \in CaloriesInputs, others \in OtherFields : validateEntry(v, others)

SpecForm == InitSheets /\ [][NextForm]_vars

\* the life of a useGoogleSheets hook
NextHook ==
    \/ \E online \in BOOLEAN, cache \in {"absent", "valid"} :
          HookMount(online, cache)
    \/ \E online \in BOOLEAN : OnlineChanges(online)
    \/ TimerTick
    \/ getRecentMealsCall
    \/ \E i \in 1..MaxFetches : MealsArrive(i)
    \/ \E i \in 1..MaxFetches : StatsArrive(i)
    \/ \E i \in 1..MaxFetches : MealsFail(i)

SpecHook == InitSheets /\ [][NextHook]_vars

\* the life of the notification service and of the reminders
NextNotif ==
    \/ \E s \in Schedules : ScheduleCalled(s)
    \/ \E id \in CallerIds : CancelCalled(id)
    \/ RemindersScheduled
    \/ RemindersCancelled
    \/ \E mealReminders \in BOOLEAN, hydrationReminders \in BOOLEAN :
          NotifSettingsUpdated(mealReminders, hydrationReminders)
    \/ \E enabled \in BOOLEAN : NotifEnabledSet(enabled)
    \/ \E t \in notif.timers : NotifTimerFires(t)

SpecNotif == InitSheets /\ [][NextNotif]_vars

(***************************************************************************)
(* Properties of the store.                                                *)
(***************************************************************************)
\* the meal operations of the action layer
MealOps == {"addMeal", "updateMeal", "deleteMeal"}

\* a record the persistence layer (or generateId) could hand out next
FreshMeal ==
    IF variant = "remote" THEN NewMealRow(MealInputs[1], nextId + 1, clock + 1)
    ELSE Spread(MealInputsLS[1], [id |-> nextId + 1, created_at |-> clock + 1,
                                  updated_at |-> clock + 1])

\* C1: applying the ADD_MEAL reducer action twice with records that share an
\* identifier yields a collection with exactly one record of that identifier:
\* the second application leaves the meal collection as the first left it.
C1_AddMealTwiceYieldsOne ==
    LET once == Reduce(variant, state, <<Act("ADD_MEAL", FreshMeal)>>)
        twice == Reduce(variant, once, <<Act("ADD_MEAL", FreshMeal)>>)
    IN  /\ CountId(twice.meals, FreshMeal.id) = 1
        /\ twice.meals = once.meals

\* C2: in every reachable state no two records of the meal collection have
\* the same identifier, whatever the interleaving of the load, the addMeal
\* responses and the pushed insert, update and delete events.
C2_NoDuplicateIds ==
    \A i, j \in 1..Len(state.meals) :
        state.meals[i].id = state.meals[j].id => i = j

\* C3: if the persistence call made by addMeal, updateMeal or deleteMeal
\* fails, the call leaves the meal collection and the settings of the store
\* as they were: neither the step that starts a meal call, nor the step in
\* which its request is answered, nor the step in which the action handles
\* the failure changes them. (The actions of part_011 make no persistence
\* call; the one of them that can fail, updateMeal for an unknown id, is held
\* to the same.)
C3_FailedCallLeavesStore ==
    [][ ( \/ \E c \in DOMAIN calls' :
                /\ calls'[c].op \in MealOps
                /\ calls'[c].parent = 0
                /\ c \notin CallIds \/ calls[c] # calls'[c]
          \/ \E c \in CallIds :
                /\ calls[c].op \in MealOps
                /\ calls[c].stage = "answered"
                /\ calls[c].code # "ok"
                /\ Response(c)
          \/ /\ variant = "local"
             /\ ncalls' = ncalls + 1
             /\ last'.op \in MealOps
             /\ last'.outcome = "rejected" )
        => /\ state'.meals = state.meals
           /\ state'.settings = state.settings ]_vars

\* C3: a meal call of the user has been rejected after its request failed,
\* while the store held records
C3_Witness ==
    /\ variant = "remote"
    /\ last.op \in MealOps
    /\ last.parent = 0
    /\ last.outcome = "rejected"
    /\ last.code \in {"neterr", "check"}
    /\ state.meals # << >>

\* what a successful call has changed in the store s
Applied(call, s) ==
    CASE call.op = "addMeal" ->
            \E i \in 1..Len(s.meals) : s.meals[i] = call.data[1]
      [] call.op = "updateMeal" ->
            \A i \in 1..Len(s.meals) :
                s.meals[i].id = call.id =>
                    \A k \in DOMAIN call.fields : s.meals[i][k] = call.fields[k]
      [] call.op = "deleteMeal" -> call.id \notin Ids(s.meals)
      [] call.op = "updateSettings" -> s.settings = call.data[1]

\* C4: no operation of the action layer swallows a failure. When the request
\* of addMeal, updateMeal, deleteMeal or updateSettings fails, the call ends
\* rejected, and so does the importData that made it; when it succeeds, its
\* change is in the store at the step that resolves it; and an importData
\* resolves only after every call it had to make has resolved.
C4_NoSwallowedFailure ==
    [][ /\ \A c \in CallIds :
            ( /\ calls[c].op \in MealOps \cup {"updateSettings"}
              /\ calls[c].stage = "answered"
              /\ Response(c) )
            => /\ calls[c].code # "ok" =>
                    /\ c \notin DOMAIN calls'
                    /\ calls[c].parent \notin DOMAIN calls'
                    /\ last'.outcome = "rejected"
                    /\ last'.op = IF calls[c].parent = 0 THEN calls[c].op
                                  ELSE "importData"
               /\ calls[c].code = "ok" =>
                    /\ Applied(calls[c], state')
                    /\ calls[c].parent = 0 =>
                          /\ last'.op = calls[c].op
                          /\ last'.outcome = "resolved"
        /\ ( /\ last' # last
             /\ last'.op = "importData"
             /\ last'.outcome = "resolved"
             /\ variant = "remote" )
           => /\ last'.made = Len(last'.held)
              /\ last'.nd = Len(last'.held) + Len(last'.sets) ]_vars

\* C4: an importData has been rejected because its updateSettings call
\* failed, after all its meals were added
C4_Witness ==
    /\ last.op = "importData"
    /\ last.outcome = "rejected"
    /\ Len(last.held) > 0
    /\ Len(last.data) = Len(last.held)

\* a goal of the update is zero or negative
NonPositiveGoal(u) ==
    \/ "daily_calories" \in DOMAIN u /\ u.daily_calories <= 0
    \/ "daily_protein" \in DOMAIN u /\ u.daily_protein <= 0
    \/ /\ "dailyGoals" \in DOMAIN u
       /\ u.dailyGoals.calories <= 0 \/ u.dailyGoals.protein <= 0

\* C5: an updateSettings with a non-positive goal is rejected locally: no
\* request for it is ever made to the persistence layer, the call ends
\* rejected, and the stored settings never carry a non-positive goal.
C5_NonPositiveGoalRejectedLocally ==
    /\ \A c \in CallIds :
          calls[c].op = "updateSettings" /\ NonPositiveGoal(calls[c].fields)
          => calls[c].req = "none"
    /\ last.op = "updateSettings" /\ NonPositiveGoal(last.fields)
       => last.outcome = "rejected" /\ last.req = "none"
    /\ variant = "local"
       => /\ state.settings.dailyGoals.calories > 0
          /\ state.settings.dailyGoals.protein > 0

\* C6: the failure of one meal record does not abort an importData: when the
\* import has ended, every meal record of its payload has been submitted
\* through addMeal.
C6_ImportSubmitsEveryRecord ==
    ( /\ variant = "remote"
      /\ last.op = "importData"
      /\ last.outcome # "pending" )
    => last.made = Len(last.held)

\* the fields of a meal record that are its content
Content(m) == Without(m, {"id", "created_at", "updated_at"})

\* the goals of a settings record
Goals(r) ==
    IF variant = "remote" THEN <<r.daily_calories, r.daily_protein>>
    ELSE <<r.dailyGoals.calories, r.dailyGoals.protein>>

UpdateAct(id, j) ==
    IF variant = "remote"
    THEN Act("UPDATE_MEAL", [id |-> id, updates |-> MealUpdates[j]])
    ELSE Act("UPDATE_MEAL", Spread(Spread(StoredMeal, MealUpdates[j]),
                                   [id |-> id]))

\* C8: UPDATE_MEAL and DELETE_MEAL for an identifier the meal collection does
\* not hold leave the collection as it is (same records, same order, same
\* values), and a second DELETE_MEAL for an identifier is a no-op: for the
\* reducer applied to every reachable state, and for every step of the store
\* in which a response or a pushed event dispatches one of them.
C8_AbsentIdIsNoOp ==
    [][ /\ \A id \in 1..(MaxIds + 1) :
            id \notin Ids(state.meals)
            => /\ \A j \in 1..Len(MealUpdates) :
                     Reduce(variant, state, <<UpdateAct(id, j)>>).meals
                        = state.meals
               /\ Reduce(variant, state, <<Act("DELETE_MEAL", id)>>).meals
                     = state.meals
        /\ \A id \in Ids(state.meals) :
              Reduce(variant, state,
                     <<Act("DELETE_MEAL", id), Act("DELETE_MEAL", id)>>).meals
                 = Reduce(variant, state, <<Act("DELETE_MEAL", id)>>).meals
        /\ \A c \in CallIds :
            ( /\ calls[c].op \in {"updateMeal", "deleteMeal"}
              /\ calls[c].stage = "answered"
              /\ calls[c].id \notin Ids(state.meals)
              /\ Response(c) )
            => state'.meals = state.meals
        /\ ( /\ Len(channel) > 0
             /\ Head(channel).table = "meals"
             /\ \/ /\ Head(channel).eventType = "UPDATE"
                   /\ Head(channel).new[1].id \notin Ids(state.meals)
                \/ /\ Head(channel).eventType = "DELETE"
                   /\ Head(channel).old[1].id \notin Ids(state.meals)
             /\ PushedEvent )
           => state'.meals = state.meals
        /\ ( /\ variant = "local"
             /\ ncalls' = ncalls + 1
             /\ last'.op = "deleteMeal"
             /\ last'.id \notin Ids(state.meals) )
           => state'.meals = state.meals ]_vars

\* C8: a deleteMeal has resolved and the store, which holds other records,
\* no longer holds the identifier: a further DELETE_MEAL or UPDATE_MEAL for it
\* finds it absent
C8_Witness ==
    /\ last.op = "deleteMeal"
    /\ last.outcome = "resolved"
    /\ state.meals # << >>
    /\ last.id \notin Ids(state.meals)

\* C9: a successful addMeal on a store that holds no other record resolves to
\* the caller with the record the persistence layer returned, and the meal
\* collection then has length 1 and holds that record.
C9_AddMealResolvesWithRecord ==
    [][ /\ \A c \in CallIds :
            ( /\ calls[c].op = "addMeal"
              /\ calls[c].parent = 0
              /\ calls[c].stage = "answered"
              /\ calls[c].code = "ok"
              /\ \A i \in 1..Len(state.meals) : state.meals[i] = calls[c].data[1]
              /\ Response(c) )
            => /\ last'.outcome = "resolved"
               /\ last'.value = calls[c].data
               /\ state'.meals = calls[c].data
               /\ Content(calls[c].data[1]) = calls[c].fields
        /\ ( /\ variant = "local"
             /\ ncalls' = ncalls + 1
             /\ last'.op = "addMeal"
             /\ state.meals = << >> )
           => /\ last'.outcome = "resolved"
              /\ state'.meals = last'.value
              /\ Len(state'.meals) = 1 ]_vars

\* the fetch of a load has failed
LoadFailed(call) ==
    IF call.req = "selectMeals" THEN call.code # "ok"
    ELSE call.code \notin {"ok", "PGRST116"}

\* C10: every load leaves the loading state when its fetch completes: after
\* a successful fetch the store holds the fetched meals and settings with
\* isLoading false and error null; after a failed fetch it holds an error
\* message with isLoading false.
C10_LoadLeavesLoading ==
    [][ /\ \A c \in CallIds :
            ( /\ calls[c].op = "loadData"
              /\ calls[c].stage = "answered"
              /\ Response(c)
              /\ c \notin DOMAIN calls' )
            => /\ ~state'.isLoading
               /\ IF LoadFailed(calls[c]) THEN state'.error # NULL
                  ELSE /\ state'.error = NULL
                       /\ state'.meals = calls[c].held
                       /\ Len(calls[c].data) > 0
                          => state'.settings = calls[c].data[1]
        /\ ( /\ variant = "local"
             /\ lifecycle' # lifecycle \/ ncalls' # ncalls
             /\ last'.op = "loadData" )
           => /\ ~state'.isLoading
              /\ IF "corrupt" \in {storage.meals.kind, storage.settings.kind}
                 THEN state'.error # NULL
                 ELSE state'.error = NULL ]_vars

\* C11: when updateMeal calls that set the same field of one record race, the
\* store's record holds, once a response has been delivered, the value of the
\* call whose response arrived last: the step that delivers a successful
\* response writes that call's fields into the record of its identifier and
\* leaves every other field and every other record as it was, so nothing
\* else of an earlier write is undone.
C11_LastResponseWins ==
    [][ \A c \in CallIds :
            ( /\ calls[c].op = "updateMeal"
              /\ calls[c].stage = "answered"
              /\ calls[c].code = "ok"
              /\ Response(c) )
            => /\ Len(state'.meals) = Len(state.meals)
               /\ \A i \in 1..Len(state.meals) :
                     state'.meals[i] =
                        IF state.meals[i].id = calls[c].id
                        THEN Spread(state.meals[i], calls[c].fields)
                        ELSE state.meals[i] ]_vars

\* C11: two updateMeal calls set the calories of one record; the tables
\* handled 250 first and 300 last, the response for 250 arrived last, and the
\* store's record holds 250
C11_Witness ==
    /\ variant = "remote"
    /\ ncalls = 2
    /\ calls = << >>
    /\ last.op = "updateMeal"
    /\ last.outcome = "resolved"
    /\ last.fields = MealUpdates[1]
    /\ \E r \in db : r.id = last.id /\ r.calories = MealUpdates[3].calories
    /\ \E i \in 1..Len(state.meals) :
          state.meals[i].id = last.id /\ state.meals[i].calories = 250

\* C12: every pushed change event is folded into the store by the reducer
\* action of its operation tag: an insert appends the pushed record, an
\* update spreads the pushed record over the record of its identifier, a
\* delete removes the record of the deleted identifier, a settings update
\* replaces the settings; the event is consumed and nothing else of the
\* store changes.
C12_PushedEventFolded ==
    [][ ( Len(channel) > 0 /\ PushedEvent )
        => LET e == Head(channel)
           IN  /\ channel' = Tail(channel)
               /\ state'.isLoading = state.isLoading
               /\ state'.error = state.error
               /\ IF e.table = "meals"
                  THEN /\ state'.settings = state.settings
                       /\ e.eventType \in {"INSERT", "UPDATE", "DELETE"}
                       /\ e.eventType = "INSERT"
                          => state'.meals = Append(state.meals, e.new[1])
                       /\ e.eventType = "UPDATE"
                          => state'.meals =
                               [i \in 1..Len(state.meals) |->
                                  IF state.meals[i].id = e.new[1].id
                                  THEN Spread(state.meals[i], e.new[1])
                                  ELSE state.meals[i]]
                       /\ e.eventType = "DELETE"
                          => state'.meals =
                               SelectSeq(state.meals,
                                         LAMBDA m : m.id # e.old[1].id)
                  ELSE /\ state'.meals = state.meals
                       /\ e.eventType = "UPDATE"
                       /\ state'.settings = e.new[1] ]_vars

\* C12: the load fetched no meal and the user made no call, yet the store
\* holds a row of the table: the pushed insert of another session was folded
\* in as ADD_MEAL
C12_Witness ==
    /\ variant = "remote"
    /\ ncalls = 0
    /\ last.op = "loadData"
    /\ last.held = << >>
    /\ Len(state.meals) = 1
    /\ state.meals[1] \in db

\* C13: the store opens its change subscriptions exactly once, when it is
\* initialised: both channels are opened in the step that mounts the
\* provider, and no later step opens one. On teardown every subscription is
\* released and no pushed event stays pending for delivery; after teardown
\* no step changes the store or the subscriptions.
C13_SubscriptionsOpenedOnceAndReleased ==
    [][ /\ ( sub' # sub /\ "joining" \in {sub'.meals, sub'.settings} )
           => /\ lifecycle = "created"
              /\ lifecycle' = "mounted"
              /\ sub = [meals |-> "closed", settings |-> "closed"]
              /\ sub' = [meals |-> "joining", settings |-> "joining"]
        /\ lifecycle' = "created" => lifecycle = "created"
        /\ lifecycle' = "mounted" /\ variant = "remote"
           => sub'.meals # "closed" /\ sub'.settings # "closed"
        /\ lifecycle' = "unmounted"
           => /\ sub' = [meals |-> "closed", settings |-> "closed"]
              /\ channel' = << >>
        /\ lifecycle = "unmounted" => state' = state /\ sub' = sub ]_vars

\* C13: the provider was torn down after its subscription had delivered the
\* insert of another session (the load had fetched no meal, the user made no
\* call, the store holds a row); both channels are closed
C13_Witness ==
    /\ lifecycle = "unmounted"
    /\ sub = [meals |-> "closed", settings |-> "closed"]
    /\ ncalls = 0
    /\ last.op = "loadData"
    /\ last.held = << >>
    /\ Len(state.meals) = 1

\* the fields the destination assigns
Assigned == {"id", "created_at", "updated_at"}

\* the identifiers the persistence collaborator has assigned: part_011 has
\* no such collaborator
AssignedIds == IF variant = "remote" THEN KnownIds ELSE {}

\* the records an ended importData has put into the store
Imported(call) == IF variant = "remote" THEN call.data ELSE call.held

\* C14, as stated: every meal record in the store carries an identifier the
\* persistence collaborator assigned, never one the client made, and an
\* importData that resolved gave each imported meal an identifier other than
\* the one in the payload.
C14_IdsAssignedByPersistence ==
    /\ \A i \in 1..Len(state.meals) : state.meals[i].id \in AssignedIds
    /\ ( last.op = "importData" /\ last.outcome = "resolved" )
       => \A i \in 1..Len(last.held) :
             "id" \in DOMAIN last.held[i]
             => Imported(last)[i].id # last.held[i].id

\* C14, amended: with the remote tables, no insert request carries an
\* identifier or a timestamp (importData strips those of the payload), every
\* inserted row gets an identifier that neither the tables nor the store
\* held, and the record addMeal adds to the store is the row the tables
\* returned. With part_011 the client makes the identifier in addMeal, new to
\* the store, and importData keeps the identifiers of the payload.
C14_IdsAssignedAtDestination ==
    [][ IF variant = "remote"
        THEN /\ \A c \in DOMAIN calls' :
                   calls'[c].req = "insert"
                   => DOMAIN calls'[c].fields \cap Assigned = {}
             /\ \A c \in CallIds :
                   ( /\ calls[c].req = "insert"
                     /\ calls[c].stage = "sent"
                     /\ ServerHandles(c)
                     /\ calls'[c].code = "ok" )
                   => /\ calls'[c].data[1].id = nextId'
                      /\ calls'[c].data[1].id \notin
                            Ids(state.meals) \cup { r.id : r \in db }
             /\ \A c \in CallIds :
                   ( /\ calls[c].op = "addMeal"
                     /\ calls[c].stage = "answered"
                     /\ calls[c].code = "ok"
                     /\ Response(c) )
                   => /\ state'.meals = Append(state.meals, calls[c].data[1])
                      /\ calls[c].data[1] \in db
                         \/ calls[c].data[1].id \in KnownIds
        ELSE /\ ( ncalls' = ncalls + 1 /\ last'.op = "addMeal" )
                => /\ last'.value[1].id = nextId'
                   /\ last'.value[1].id \notin Ids(state.meals)
             /\ ( /\ ncalls' = ncalls + 1
                  /\ last'.op = "importData"
                  /\ last'.outcome = "resolved" )
                => state'.meals = last'.held ]_vars

\* C14: an importData of an export has resolved with the remote tables: the
\* payload carried the identifier of the exported record and the record the
\* import added carries another
C14_Witness ==
    /\ variant = "remote"
    /\ last.op = "importData"
    /\ last.outcome = "resolved"
    /\ Len(last.held) > 0
    /\ "id" \in DOMAIN last.held[1]
    /\ last.data[1].id # last.held[1].id

\* the identifiers of the records of a collection, in order
IdsInOrder(ms) == [i \in 1..Len(ms) |-> ms[i].id]

\* C15: the identifier of a meal record in the store never changes: the step
\* in which an updateMeal call applies its update, and the step in which a
\* pushed update event is applied, leave the identifier of every record as it
\* was, whatever fields the update carries.
C15_IdentifierNeverChanges ==
    [][ /\ \A c \in CallIds :
            ( /\ calls[c].op = "updateMeal"
              /\ calls[c].stage = "answered"
              /\ Response(c) )
            => IdsInOrder(state'.meals) = IdsInOrder(state.meals)
        /\ ( /\ Len(channel) > 0
             /\ Head(channel).table = "meals"
             /\ Head(channel).eventType = "UPDATE"
             /\ PushedEvent )
           => IdsInOrder(state'.meals) = IdsInOrder(state.meals)
        /\ ( /\ variant = "local"
             /\ ncalls' = ncalls + 1
             /\ last'.op = "updateMeal" )
           => IdsInOrder(state'.meals) = IdsInOrder(state.meals) ]_vars

\* C16: when updateMeal succeeds, the store's copy of the record carries the
\* re-stamped updated timestamp: after the step that applies the update, the
\* updated_at of the copy is later than it was, or is the one the table's row
\* carries.
C16_UpdateRestampsStoreCopy ==
    [][ \A c \in CallIds :
            ( /\ calls[c].op = "updateMeal"
              /\ calls[c].stage = "answered"
              /\ calls[c].code = "ok"
              /\ Response(c) )
            => \A i \in 1..Len(state.meals) :
                  state.meals[i].id = calls[c].id
                  => \/ state'.meals[i].updated_at > state.meals[i].updated_at
                     \/ \E r \in db :
                           /\ r.id = calls[c].id
                           /\ r.updated_at = state'.meals[i].updated_at ]_vars

\* the settings of the store are a settings record: both goals are there
HasGoals(s) == {"daily_calories", "daily_protein"} \subseteq DOMAIN s

\* the step applies the settings row that persistence returned to loadData or
\* to updateSettings
SettingsAnswered(c) ==
    /\ calls[c].op \in {"loadData", "updateSettings"}
    /\ calls[c].stage = "answered"
    /\ calls[c].code = "ok"
    /\ Len(calls[c].data) > 0
    /\ Response(c)
    /\ state'.settings = calls[c].data[1]

\* the step applies a pushed change of the settings row
SettingsPushed ==
    /\ Len(channel) > 0
    /\ Head(channel).table = "settings"
    /\ Head(channel).eventType = "UPDATE"
    /\ PushedEvent
    /\ state'.settings = Head(channel).new[1]

\* C17: the settings of the store are never absent: a fresh store reports the
\* goals 2000 and 150, and the settings change only in a step that applies the
\* row loaded, the row updateSettings got back, or a pushed settings change,
\* each a whole settings row.
C17_SettingsNeverAbsent ==
    /\ variant = "remote"
       => /\ state.settings.daily_calories = 2000
          /\ state.settings.daily_protein = 150
    /\ [][ variant = "remote"
           => /\ HasGoals(state'.settings)
              /\ state'.settings # state.settings
                 => \/ \E c \in CallIds : SettingsAnswered(c)
                    \/ SettingsPushed ]_vars

\* the store has loaded, and its settings are a row of the tables whose goals
\* are no longer the defaults
C17_Witness ==
    /\ variant = "remote"
    /\ state.isLoading = FALSE
    /\ state.settings.id = "s1"
    /\ state.settings.daily_calories # 2000

\* fields that break the invariants of a meal record
InvalidMeal(m) ==
    \/ "calories" \in DOMAIN m /\ m.calories < 0
    \/ "protein" \in DOMAIN m /\ m.protein < 0
    \/ "food_name" \in DOMAIN m /\ m.food_name = ""

\* C18: an addMeal with invalid fields (negative calories, negative protein or
\* an empty food name) fails before any request is sent: no request for it is
\* ever made to the persistence layer, the call ends rejected, and no such
\* record is in the store or in the tables.
C18_InvalidMealRejectedLocally ==
    /\ \A c \in CallIds :
          calls[c].op = "addMeal" /\ InvalidMeal(calls[c].fields)
          => calls[c].req = "none"
    /\ last.op = "addMeal" /\ InvalidMeal(last.fields)
       => last.outcome = "rejected" /\ last.req = "none"
    /\ \A i \in 1..Len(state.meals) : ~InvalidMeal(state.meals[i])
    /\ \A r \in db : ~InvalidMeal(r)

\* the records of a are the first records of b, unchanged
IsPrefix(a, b) == Len(a) <= Len(b) /\ SubSeq(b, 1, Len(a)) = a

SheetsFailed ==
    \/ sheets.fetch \in {"rejected", "aborted"}
    \/ /\ sheets.fetch = "resolved"
       /\ \/ ~ResponseOk(sheets.status)
          \/ sheets.body.kind = "unparsable"
          \/ sheets.body.success \in {UNDEFINED, JsFalse}

\* C20: addMeal and getMeals of GoogleSheetsApiService never reject: a call
\* that has settled has resolved, and after a network error, a status that is
\* not OK, an unparsable body, a timeout, or a body whose success field is
\* missing or false, its result has success false and an error message.
C20_SheetsCallsNeverReject ==
    sheets.stage = "settled"
    => /\ sheets.outcome = "resolved"
       /\ SheetsFailed
          => /\ sheets.result.success = JsFalse
             /\ sheets.result.error \notin {UNDEFINED, NULL, ""}

\* a getMeals has settled on an OK response whose body has no success field
C20_Witness ==
    /\ sheets.op = "getMeals"
    /\ sheets.stage = "settled"
    /\ sheets.fetch = "resolved"
    /\ ResponseOk(sheets.status)
    /\ sheets.body = JsonObject(UNDEFINED, UNDEFINED)
    /\ sheets.result.success = JsFalse

\* the distance between two whole numbers
Dist(a, b) == IF a >= b THEN a - b ELSE b - a

\* the meals the call of getSummaryStats fetched
Fetched ==
    IF stats.response.success = JsTrue /\ stats.response.data.kind = "array"
    THEN stats.response.data.items ELSE << >>

\* C21: getSummaryStats never rejects; totalMeals is the number of meals
\* fetched, totalCalories and totalProtein are the sums over those meals, and
\* avgCalories (avgProtein) is the whole number (the number of tenths) nearest
\* to the total divided by totalMeals; when the fetch fails or brings no meal
\* all five statistics are 0.
C21_SummaryStats ==
    stats.called
    => /\ stats.outcome = "resolved"
       /\ IF Fetched = << >> THEN stats.stats = NoStats
          ELSE LET n == Len(Fetched)
                   s == stats.stats
               IN  /\ s.totalMeals = n
                   /\ s.totalCalories = ReduceSum(Fetched, "calories")
                   /\ s.totalProtein = ReduceSum(Fetched, "protein")
                   /\ 2 * Dist(s.avgCalories * n, s.totalCalories) <= n
                   /\ 2 * Dist(s.avgProtein * n, 10 * s.totalProtein) <= n

\* getSummaryStats has returned the statistics of three meals whose average
\* calories are not a whole number
C21_Witness ==
    /\ stats.called
    /\ Len(Fetched) = 3
    /\ stats.stats.avgCalories * 3 > stats.stats.totalCalories

\* a whole number between 0 and 10000
WholeInRange(v) ==
    v.kind = "number" /\ \E n \in 0..10000 : v.tenths = 10 * n

\* C22: mealEntrySchema and isValidCalories accept a calories value exactly
\* when it is a whole number between 0 and 10000 inclusive: the helper says
\* so, the schema raises an issue on calories exactly otherwise, and an entry
\* whose other fields are valid is accepted exactly then.
C22_CaloriesAcceptedWhenWholeInRange ==
    form.checked
    => /\ form.isValidCalories <=> WholeInRange(form.calories)
       /\ form.issues["calories"] = << >> <=> WholeInRange(form.calories)
       /\ form.others.foodName.len > 0
          => (form.success <=> WholeInRange(form.calories))

\* the entry of the tests with calories 10000 has been validated and accepted
C22_Witness ==
    /\ form.checked
    /\ form.calories = Num(100000)
    /\ form.others.foodName.len > 0
    /\ form.isValidCalories
    /\ form.success

\* the store backed by the remote tables has loaded without an error, both
\* subscriptions are joined, no call is in flight and no pushed event is
\* pending
Quiescent ==
    /\ variant = "remote"
    /\ lifecycle = "mounted"
    /\ sub.meals = "joined"
    /\ ~state.isLoading
    /\ state.error = NULL
    /\ calls = << >>
    /\ channel = << >>

\* C23: once every response and every pushed event has been delivered, the
\* meal collection of the store is the set of rows of the meals table: the
\* same records, none missing, none extra, none twice.
C23_StoreConvergesToTable ==
    Quiescent
    => /\ { state.meals[i] : i \in 1..Len(state.meals) } = db
       /\ Len(state.meals) = Cardinality(db)

\* C24: once deleteMeal(id) has succeeded and DELETE_MEAL(id) has been
\* applied, no pushed event delivered afterwards makes a record with that
\* identifier reappear in the store.
C24_DeletedRecordStaysDeleted ==
    [][ ( /\ last.op = "deleteMeal"
          /\ last.outcome = "resolved"
          /\ last.id \notin Ids(state.meals)
          /\ PushedEvent )
        => last.id \notin Ids(state'.meals) ]_vars

\* C25: a refresh that fails while the device is online does not by itself
\* start another refresh: the step in which a fetch of the online hook fails
\* starts no fetch.
C25_FailedRefreshStartsNoRefresh ==
    [][ \A i \in 1..MaxFetches :
            (hook.isOnline /\ MealsFail(i)) => hook'.started = hook.started ]_vars

\* C26: isLoading is false after every refreshMeals or getRecentMeals call
\* has finished: when a call has finished and none is in flight, the hook is
\* not loading.
C26_NotLoadingAfterCalls ==
    (hook.finished /\ hook.inflight = << >>) => ~hook.isLoading

\* C27: after cancelScheduledNotification(id) has returned, no notification
\* scheduled under that id is shown until scheduleNotification is called
\* again for it.
C27_CancelledNotificationNotShown ==
    [][ \A t \in notif.timers :
          (NotifTimerFires(t) /\ show(notif)) => ~t.cancelled ]_vars

\* the reminders the settings allow
AllowedReminders ==
    IF notif.settings.mealReminders /\ notif.isEnabled
    THEN MealReminderIds
         \cup (IF notif.settings.hydrationReminders
               THEN HydrationReminderIds ELSE {})
    ELSE {}

\* C28: after scheduleReminders has returned, the reminders whose timers are
\* pending are exactly those the settings in force allow: none when meal
\* reminders or notifications are turned off.
C28_PendingRemindersFollowSettings ==
    notif.reminded
    => { t.id : t \in notif.timers } \cap ReminderIds = AllowedReminders

\* C29: with part_011, two updateMeal calls that change different fields of
\* one meal both take effect: when an updateMeal of a meal follows a resolved
\* updateMeal of that meal, the stored record holds, in every field the later
\* call was not given, what the earlier call made of it, also when the later
\* call is made before the provider has rendered again.
C29_BothUpdatesTakeEffect ==
    [][ \A id \in 1..MaxIds, j \in 1..Len(MealUpdates) :
            ( /\ variant = "local"
              /\ last.op = "updateMeal"
              /\ last.outcome = "resolved"
              /\ last.id = id
              /\ updateMealLS(id, j)
              /\ last'.outcome = "resolved" )
            => \A i \in 1..Len(state'.meals) :
                  state'.meals[i].id = id
                  => \A k \in DOMAIN state'.meals[i]
                                 \ (DOMAIN MealUpdates[j] \cup {"updated_at"}) :
                        state'.meals[i][k] = last.value[1][k] ]_vars

====
